---------------------------- MODULE Spec2Model ----------------------------
(***************************************************************************)
(* A model of the SpendWise client (ndegwamoche/budget-tracker): the       *)
(* Dashboard, Expenses and Reports views, the month arithmetic they use,   *)
(* and the aggregates they derive from the Firestore snapshots they are    *)
(* handed.                                                                 *)
(*                                                                         *)
(* JavaScript numbers are modelled as exact rationals plus the values NaN, *)
(* +Infinity, -Infinity, and `undefined` for a field a document lacks.     *)
(* Floating-point rounding is not modelled.  A JavaScript Date is the      *)
(* record [y, m, d, t] in local time, m in 0..11, and t = 0 for the first  *)
(* instant of the day (00:00:00.000), t = 1 for any later instant.         *)
(***************************************************************************)
EXTENDS Integers, Sequences, FiniteSets, TLC

VARIABLES
    view,            \* the mounted page: "dashboard", "expenses" or "reports"
    now,             \* what `new Date()` returns
    user,            \* the mounted view's user state: a uid, or "none"
    store,           \* the documents of the Firestore collection "expenses"
    catStore,        \* the documents of the Firestore collection "categories"
    month,           \* Dashboard: the selected month (a Date)
    loading,         \* Dashboard: loading
    error,           \* Dashboard: error ("null" or a message)
    categories,      \* Dashboard: categories
    monthExpenses,   \* Dashboard: monthExpenses
    prevExpenses,    \* Dashboard: prevExpenses
    recentExpenses,  \* Dashboard: recentExpenses
    curQuery,        \* Dashboard: the query of the current-month subscription
    prevQuery,       \* Dashboard: the query of the previous-month subscription
    recentQuery,     \* Dashboard: the query of the recent subscription
    expMonth,        \* Expenses: the selected month (a Date)
    items,           \* Expenses: items
    expLoading,      \* Expenses: loading
    pageError,       \* Expenses: pageError ("null" or a message)
    expQuery,        \* Expenses: the query of the expenses subscription
    year,            \* Reports: the selected year
    expenses,        \* Reports: expenses
    repCategories,   \* Reports: categories
    repLoading,      \* Reports: loading
    repQuery,        \* Reports: the query of the yearly subscription
    authUser,        \* Firebase Auth: auth.currentUser, a uid or "none"
    authQueue,       \* Firebase Auth: the auth states not yet handed to the listeners
    appUser,         \* App: user
    checkingAuth,    \* App: checkingAuth
    path,            \* the router's location
    failed,          \* the subscriptions whose listener was ended by an error
    eastOfUTC,       \* whether the browser's time zone is ahead of UTC
    form,            \* Expenses: form
    editingId,       \* Expenses: editingId (NoId or a document id)
    saving,          \* Expenses: saving
    expCats,         \* Expenses: categories
    catItems,        \* Categories: items
    catName,         \* Categories: name
    catEditingId,    \* Categories: editingId ("null" or a document id)
    catSaving,       \* Categories: saving
    catPageError,    \* Categories: pageError ("null" or a message)
    pending,         \* the save requests of the two forms that are in flight
    issued,          \* the number of write requests issued so far
    srvClock         \* the server's clock, as serverTimestamp() resolves

hostVars == << authUser, authQueue, appUser, checkingAuth, path >>
envVars == << view, now, user, store, catStore, hostVars, failed >>
dashVars == << month, loading, error, categories, monthExpenses, prevExpenses,
               recentExpenses, curQuery, prevQuery, recentQuery >>
expVars == << expMonth, items, expLoading, pageError, expQuery >>
repVars == << year, expenses, repCategories, repLoading, repQuery >>
formVars == << form, editingId, saving, expCats >>
catVars == << catItems, catName, catEditingId, catSaving, catPageError >>
netVars == << pending, issued, srvClock >>
writeVars == << eastOfUTC, formVars, catVars, netVars >>
vars == << envVars, dashVars, expVars, repVars, writeVars >>

-----------------------------------------------------------------------------
(* Bounds of the model.                                                    *)

\* the largest number of expense documents in a store of the aggregation family
MaxDocs == 2
\* the number of documents in the pool the recent-list stores are drawn from
PoolSize == 10
\* the years the clock and the month navigation range over: 2023 .. 2023 + YearSpan
YearSpan == 1
\* the largest number of auth states waiting to be handed to the listeners
MaxQueue == 2
\* how many months away from the clock's month a session navigates
MonthReach == 1

-----------------------------------------------------------------------------
(* JavaScript numbers.                                                     *)

RECURSIVE GCD(_, _)
GCD(a, b) == IF b = 0 THEN a ELSE GCD(b, a % b)

Abs(n) == IF n < 0 THEN -n ELSE n

\* the rational n/d, d # 0, in lowest terms with a positive denominator
Rat(n, d) ==
    LET g == GCD(Abs(n), Abs(d))
        s == IF d < 0 THEN -1 ELSE 1
    IN  << "num", (s * n) \div g, (s * d) \div g >>

Num(n) == << "num", n, 1 >>
NaN == << "nan", 0, 1 >>
Inf == << "inf", 1, 1 >>
NegInf == << "inf", -1, 1 >>
Undefined == << "undefined", 0, 1 >>

IsNum(v) == v[1] = "num"
IsNaN(v) == v[1] = "nan"
IsInf(v) == v[1] = "inf"
\* Number.isFinite
IsFinite(v) == IsNum(v)

\* ToNumber: undefined becomes NaN
ToNumber(v) == IF v[1] = "undefined" THEN NaN ELSE v

Sign(v) == IF IsInf(v) THEN v[2]
           ELSE IF v[2] > 0 THEN 1 ELSE IF v[2] < 0 THEN -1 ELSE 0

\* a + b
JSAdd(x, y) ==
    LET a == ToNumber(x)
        b == ToNumber(y)
    IN  IF IsNaN(a) \/ IsNaN(b) THEN NaN
        ELSE IF IsInf(a) /\ IsInf(b) THEN (IF a = b THEN a ELSE NaN)
        ELSE IF IsInf(a) THEN a
        ELSE IF IsInf(b) THEN b
        ELSE Rat(a[2] * b[3] + b[2] * a[3], a[3] * b[3])

\* -a
JSNeg(x) ==
    LET a == ToNumber(x)
    IN  IF IsNaN(a) THEN NaN
        ELSE IF IsInf(a) THEN << "inf", -a[2], 1 >>
        ELSE << "num", -a[2], a[3] >>

\* a - b
JSSub(x, y) == JSAdd(x, JSNeg(y))

\* a * b
JSMul(x, y) ==
    LET a == ToNumber(x)
        b == ToNumber(y)
    IN  IF IsNaN(a) \/ IsNaN(b) THEN NaN
        ELSE IF IsInf(a) \/ IsInf(b)
             THEN (IF Sign(a) * Sign(b) = 0 THEN NaN
                   ELSE << "inf", Sign(a) * Sign(b), 1 >>)
        ELSE Rat(a[2] * b[2], a[3] * b[3])

\* a / b: a division by zero does not throw, it yields NaN or an infinity
JSDiv(x, y) ==
    LET a == ToNumber(x)
        b == ToNumber(y)
    IN  IF IsNaN(a) \/ IsNaN(b) THEN NaN
        ELSE IF IsInf(a) /\ IsInf(b) THEN NaN
        ELSE IF IsInf(a) THEN << "inf", a[2] * (IF Sign(b) < 0 THEN -1 ELSE 1), 1 >>
        ELSE IF IsInf(b) THEN Num(0)
        ELSE IF b[2] = 0
             THEN (IF a[2] = 0 THEN NaN ELSE << "inf", Sign(a), 1 >>)
        ELSE Rat(a[2] * b[3], a[3] * b[2])

\* a > b: false as soon as one side is NaN
JSGt(x, y) ==
    LET a == ToNumber(x)
        b == ToNumber(y)
    IN  /\ ~IsNaN(a)
        /\ ~IsNaN(b)
        /\ IF IsInf(a) /\ IsInf(b) THEN a[2] > b[2]
           ELSE IF IsInf(a) THEN a[2] > 0
           ELSE IF IsInf(b) THEN b[2] < 0
           ELSE a[2] * b[3] > b[2] * a[3]

\* a <= b, as the properties below read it: false as soon as one side is NaN
JSLe(x, y) == ~IsNaN(ToNumber(x)) /\ ~IsNaN(ToNumber(y)) /\ ~JSGt(x, y)

\* a === 0
StrictEqZero(v) == IsNum(v) /\ v[2] = 0

\* the truthiness of a number-valued field: undefined, NaN and 0 are falsy
Truthy(v) == ~(v[1] = "undefined" \/ IsNaN(v) \/ StrictEqZero(v))

\* v || 0
OrZero(v) == IF Truthy(v) THEN v ELSE Num(0)

-----------------------------------------------------------------------------
(* JavaScript dates.                                                       *)

IsLeap(y) == (y % 4 = 0 /\ y % 100 # 0) \/ y % 400 = 0

DaysInMonth(y, m) ==
    IF m = 1 THEN (IF IsLeap(y) THEN 29 ELSE 28)
    ELSE IF m \in {3, 5, 8, 10} THEN 30 ELSE 31

\* new Date(y, m, d, ...): a month outside 0..11 carries into the year, a day
\* outside the month carries into the neighbouring month
RECURSIVE MakeDate(_, _, _, _)
MakeDate(y, m, d, t) ==
    LET ym == y * 12 + m
        yy == ym \div 12
        mm == ym % 12
    IN  IF d < 1 THEN MakeDate(yy, mm - 1, d + DaysInMonth((ym - 1) \div 12, (ym - 1) % 12), t)
        ELSE IF d > DaysInMonth(yy, mm) THEN MakeDate(yy, mm + 1, d - DaysInMonth(yy, mm), t)
        ELSE [y |-> yy, m |-> mm, d |-> d, t |-> t]

\* Timestamp.fromDate: the instant as a number, ordered as the instants are
TimestampFromDate(dt) == ((dt.y * 12 + dt.m) * 32 + dt.d) * 2 + dt.t

\* Timestamp.toDate
ToDate(ts) ==
    [y |-> (ts \div 64) \div 12, m |-> (ts \div 64) % 12,
     d |-> (ts \div 2) % 32, t |-> ts % 2]

\* the (year, month) pair of a date as one number
YM(dt) == dt.y * 12 + dt.m

\* a month end that keeps the day of the month, as addMonths does; the window
\* laws below tell it from nextMonthStart
nextMonthStartSameDay(dt) == MakeDate(dt.y, dt.m + 1, dt.d, 0)

\* Dashboard.tsx: monthStart, nextMonthStart, addMonths
monthStart(dt) == MakeDate(dt.y, dt.m, 1, 0)
nextMonthStart(dt) == MakeDate(dt.y, dt.m + 1, 1, 0)
addMonths(dt, delta) == MakeDate(dt.y, dt.m + delta, dt.d, dt.t)

\* Expenses: addMonths (monthStart and nextMonthStart are the Dashboard's)
expAddMonths(dt, delta) == MakeDate(dt.y, dt.m + delta, 1, 0)


-----------------------------------------------------------------------------
(* The Firestore collections and the queries the views subscribe to.       *)

Min(a, b) == IF a < b THEN a ELSE b

\* Array.prototype.slice(0, n), and what limit(n) keeps
Take(s, n) == SubSeq(s, 1, Min(n, Len(s)))

\* limit(8) of the Dashboard's recent query
RecentLimit == 8

\* the query of one subscription: where userId == uid, date >= start, date < end
NoQuery == [uid |-> "none", start |-> 0, end |-> 0]
Window(uid, first, last) ==
    [uid |-> uid, start |-> TimestampFromDate(first), end |-> TimestampFromDate(last)]

\* where("date", ">=", start), where("date", "<", end)
InWindow(ts, q) == ts >= q.start /\ ts < q.end

\* the documents a query matches
Matching(docs, q) == { d \in docs : d.userId = q.uid /\ InWindow(d.date, q) }

\* orderBy("date", "desc"): every order of the documents with the later date
\* first.  The query names no second key, so the order of documents of equal
\* date is the store's: each such order is an outcome.
RECURSIVE DateDescOrders(_)
DateDescOrders(S) ==
    IF S = {} THEN { << >> }
    ELSE LET top == { d \in S : \A e \in S : e.date <= d.date }
         IN  UNION { { << d >> \o rest : rest \in DateDescOrders(S \ {d}) } : d \in top }

\* a query with no orderBy (Reports): the order is the store's
RECURSIVE AnyOrders(_)
AnyOrders(S) ==
    IF S = {} THEN { << >> }
    ELSE UNION { { << d >> \o rest : rest \in AnyOrders(S \ {d}) } : d \in S }

\* snap.docs of the month, previous-month and expenses-list subscriptions
MonthSnapshots(docs, q) == DateDescOrders(Matching(docs, q))

\* the recent query without its limit; the recent-list laws below tell it
\* from RecentSnapshots
RecentSnapshotsUnlimited(docs, q) == DateDescOrders(Matching(docs, q))

\* snap.docs of the recent subscription: the same query with limit(8)
RecentSnapshots(docs, q) ==
    { Take(o, RecentLimit) : o \in DateDescOrders(Matching(docs, q)) }

\* snap.docs of the yearly subscription
YearSnapshots(docs, q) == AnyOrders(Matching(docs, q))

\* snap.docs of a categories subscription; catStore is kept in name order,
\* which is the order orderBy("name", "asc") gives
CategorySnapshot(cats, uid) == SelectSeq(cats, LAMBDA c : c.userId = uid)

-----------------------------------------------------------------------------
(* The aggregates: Dashboard.tsx 87-91 and 195-221, the Expenses list      *)
(* total, Reports.tsx 113-148.                                             *)

\* items.reduce((sum, e) => sum + e.amount, 0)
RECURSIVE SumAmounts(_)
SumAmounts(s) ==
    IF s = << >> THEN Num(0)
    ELSE JSAdd(SumAmounts(SubSeq(s, 1, Len(s) - 1)), s[Len(s)].amount)

\* items.reduce((sum, x) => sum + (x.amount || 0), 0)
RECURSIVE SumAmountsOrZero(_)
SumAmountsOrZero(s) ==
    IF s = << >> THEN Num(0)
    ELSE JSAdd(SumAmountsOrZero(SubSeq(s, 1, Len(s) - 1)), OrZero(s[Len(s)].amount))

\* Dashboard: currentTotal, prevTotal, change
currentTotal == SumAmounts(monthExpenses)
prevTotal == SumAmounts(prevExpenses)
change == JSSub(currentTotal, prevTotal)

\* the percentage rule with the test prev <= 0 in place of prevTotal === 0;
\* the percentage laws below tell it from PctChange
PctChangeNonPositivePrev(curr, prev) ==
    IF JSLe(prev, Num(0))
    THEN (IF JSGt(curr, Num(0)) THEN Num(100) ELSE Num(0))
    ELSE JSMul(JSDiv(JSSub(curr, prev), prev), Num(100))

\* prevTotal === 0 ? (currentTotal > 0 ? 100 : 0) : (change / prevTotal) * 100
PctChange(curr, prev) ==
    IF StrictEqZero(prev)
    THEN (IF JSGt(curr, Num(0)) THEN Num(100) ELSE Num(0))
    ELSE JSMul(JSDiv(JSSub(curr, prev), prev), Num(100))

pctChange == PctChange(currentTotal, prevTotal)

\* Expenses: total
total == SumAmountsOrZero(items)

\* Reports: totalYear
totalYear == SumAmounts(expenses)

\* Reports: monthlyData, arr[m] += e.amount over a new Array(12).fill(0)
RECURSIVE MonthlyTotals(_)
MonthlyTotals(s) ==
    IF s = << >> THEN [k \in 1..12 |-> Num(0)]
    ELSE LET arr == MonthlyTotals(SubSeq(s, 1, Len(s) - 1))
             e == s[Len(s)]
             k == ToDate(e.date).m + 1
         IN  [arr EXCEPT ![k] = JSAdd(arr[k], e.amount)]

monthlyData == MonthlyTotals(expenses)

\* categoryMap: categories.forEach((c) => map.set(c.id, c.name))
MapHas(cats, id) == \E i \in 1..Len(cats) : cats[i].id = id
MapGet(cats, id) ==
    LET last == CHOOSE i \in 1..Len(cats) :
                    cats[i].id = id /\ \A j \in (i + 1)..Len(cats) : cats[j].id # id
    IN  cats[last].name

\* categoryMap.get(id) || fallback: a missing or empty name is falsy
LabelOr(cats, id, fallback) ==
    IF MapHas(cats, id) /\ MapGet(cats, id) # "" THEN MapGet(cats, id) ELSE fallback

\* the Map of the breakdown, as its entries in insertion order:
\* map.set(e.categoryId, (map.get(e.categoryId) || 0) + e.amount)
RECURSIVE CategoryTotals(_)
CategoryTotals(s) ==
    IF s = << >> THEN << >>
    ELSE LET m == CategoryTotals(SubSeq(s, 1, Len(s) - 1))
             e == s[Len(s)]
             at == { i \in 1..Len(m) : m[i].id = e.categoryId }
         IN  IF at = {}
             THEN Append(m, [id |-> e.categoryId, value |-> JSAdd(Num(0), e.amount)])
             ELSE LET i == CHOOSE j \in at : TRUE
                  IN  [m EXCEPT ![i].value = JSAdd(OrZero(m[i].value), e.amount)]

\* the comparator (a, b) => b.value - a.value, as sort reads it: NaN counts as 0
Compare(a, b) ==
    LET r == JSSub(b.value, a.value)
    IN  IF IsNaN(r) THEN 0 ELSE Sign(r)

\* ECMAScript's consistent comparator: the entries fall into totally ordered classes
ConsistentOn(s) ==
    \A i, j, k \in 1..Len(s) :
        /\ Compare(s[i], s[j]) = -Compare(s[j], s[i])
        /\ (Compare(s[i], s[j]) = 0 /\ Compare(s[j], s[k]) = 0) => Compare(s[i], s[k]) = 0
        /\ (Compare(s[i], s[j]) < 0 /\ Compare(s[j], s[k]) < 0) => Compare(s[i], s[k]) < 0
        /\ (Compare(s[i], s[j]) > 0 /\ Compare(s[j], s[k]) > 0) => Compare(s[i], s[k]) > 0

\* e goes before the first entry the comparator puts after it
InsertSorted(sorted, e) ==
    LET later == { i \in 1..Len(sorted) : Compare(sorted[i], e) > 0 }
        at == IF later = {} THEN Len(sorted) + 1
              ELSE CHOOSE i \in later : \A j \in later : i <= j
    IN  SubSeq(sorted, 1, at - 1) \o << e >> \o SubSeq(sorted, at, Len(sorted))

RECURSIVE StableSort(_)
StableSort(s) ==
    IF s = << >> THEN << >>
    ELSE InsertSorted(StableSort(SubSeq(s, 1, Len(s) - 1)), s[Len(s)])

Perms(s) ==
    { [i \in 1..Len(s) |-> s[p[i]]] :
        p \in { f \in [1..Len(s) -> 1..Len(s)] : \A i, j \in 1..Len(s) : f[i] = f[j] => i = j } }

\* Array.prototype.sort: stable; with an inconsistent comparator the order is
\* implementation-defined, so every order is an outcome
SortOutcomes(s) == IF ConsistentOn(s) THEN { StableSort(s) } ELSE Perms(s)

\* Array.from(map.entries()).map(([id, value]) => ({name: ..., value})).sort(...)
\* (the id is kept beside the name so that an entry can be traced to its category)
Breakdown(recs, cats, fallback) ==
    LET m == CategoryTotals(recs)
    IN  SortOutcomes([i \in 1..Len(m) |->
            [id |-> m[i].id, name |-> LabelOr(cats, m[i].id, fallback), value |-> m[i].value]])

\* Dashboard: categoryData
categoryData == Breakdown(monthExpenses, categories, "Other")

\* Reports: categoryData
repCategoryData == Breakdown(expenses, repCategories, "Unknown")

\* categoryData.slice(0, 6) of the Dashboard's progress bars
BarLimit == 6

\* the width of a progress bar: (cat.value / currentTotal) * 100
BarWidth(value, whole) == JSMul(JSDiv(value, whole), Num(100))

\* bar widths relative to the largest entry instead of the period total; the
\* bar laws below tell them from BarWidths
BarWidthsOfLargest(cd) ==
    [i \in 1..Len(Take(cd, BarLimit)) |-> BarWidth(cd[i].value, cd[1].value)]

\* the widths of the bars shown for one outcome of categoryData
BarWidths(cd) ==
    [i \in 1..Len(Take(cd, BarLimit)) |-> BarWidth(cd[i].value, currentTotal)]


-----------------------------------------------------------------------------
(* Subscriptions: the queries the effects of each view build.              *)

\* Dashboard.tsx 118-127 and 176-186: the current-month and the recent query
CurWindow(uid, m) == Window(uid, monthStart(m), nextMonthStart(m))

\* Dashboard.tsx 154-164: the previous-month query
PrevWindow(uid, m) ==
    LET prev == addMonths(m, -1)
    IN  Window(uid, monthStart(prev), nextMonthStart(prev))

\* Expenses: the expenses query (part_001 190-199)
ExpWindow(uid, m) == Window(uid, monthStart(m), nextMonthStart(m))

\* Reports.tsx 43-49 and 98-105
yearStart(y) == MakeDate(y, 0, 1, 0)
nextYearStart(y) == MakeDate(y + 1, 0, 1, 0)
YearWindow(uid, y) == Window(uid, yearStart(y), nextYearStart(y))

-----------------------------------------------------------------------------
(* The documents the stores are drawn from.                                *)

Views == { "dashboard", "expenses", "reports" }
CatIds == { "c1", "c2" }

\* amounts a document of the collection may hold: the client writes finite
\* amounts above zero only, but it reads whatever the collection holds
AmountValues == { Num(100), Num(200), Num(-100), Undefined, Inf }

Doc(i, a, c, ts) ==
    [id |-> i, userId |-> "u1", amount |-> a, categoryId |-> c, date |-> ts,
     createdAt |-> i]

\* the clock of the aggregation runs: 15 March 2024
AggClock == { [y |-> 2024, m |-> 2, d |-> 15, t |-> 1] }

\* 10 March 2024 and 10 February 2024, as the form stores dates (at 00:00)
AggDates == { TimestampFromDate(MakeDate(2024, 2, 10, 0)),
              TimestampFromDate(MakeDate(2024, 1, 10, 0)) }

RECURSIVE StoresOf(_)
StoresOf(n) ==
    IF n = 0 THEN { {} }
    ELSE { s \cup { Doc(n, a, c, ts) } :
             s \in StoresOf(n - 1), a \in AmountValues, c \in CatIds, ts \in AggDates }

\* the aggregation family: up to MaxDocs documents of any amount and category
AggStores == UNION { StoresOf(n) : n \in 0..MaxDocs }

\* the recent-list family: the subsets of a pool of well-formed documents of
\* March 2024, the first two of them of the same date
PoolDay(i) == IF i = 1 THEN 1 ELSE i - 1
Pool == { Doc(i, Num(100), "c1", TimestampFromDate(MakeDate(2024, 2, PoolDay(i), 0))) :
            i \in 1..PoolSize }
RecentStores == SUBSET Pool

\* the categories collection, in name order
Cat(id, name) == [id |-> id, userId |-> "u1", name |-> name]
CatStores == { << Cat("c1", "Food") >>, << Cat("c1", "Food"), Cat("c2", "Rent") >> }

-----------------------------------------------------------------------------
(* The Expenses form and the Categories page: texts, form values and the   *)
(* documents of the write runs.                                            *)

\* the largest number of write requests a run of the Expenses page issues
MaxWrites == 1
\* the largest number of write requests a run of the Categories page issues
MaxCatWrites == 1
\* the largest number of save requests of the forms in flight at one time
MaxInFlight == 1
\* the largest number of writes another tab of the session makes in a run
MaxElsewhere == 1
\* the largest number of calls of ensureUncategorized that go on to addDoc
MaxCalls == 3
\* the server's clock when a write run starts; the documents already stored
\* were created before
ClockStart == 50

\* editingId when no row is being edited (null); no document has this id
NoId == 0

\* the text of the amount input: the number it reads as, or the empty text
Blank == << "Blank", 0, 1 >>
\* Number(form.amount): the empty text reads as 0
NumberOf(text) == IF text = Blank THEN Num(0) ELSE text
\* String(exp.amount ?? "")
StringOf(v) == IF v = Undefined THEN Blank ELSE v

\* part_001 117-121: amountNum and amountValid
amountNum == NumberOf(form.amount)
amountValidOf(n) == IsFinite(n) /\ JSGt(n, Num(0))
amountValid == amountValidOf(amountNum)

\* a text is a sequence of characters
Chars == { " ", "a", "b" }
RECURSIVE TrimStart(_)
TrimStart(s) == IF s # << >> /\ Head(s) = " " THEN TrimStart(Tail(s)) ELSE s
RECURSIVE TrimEnd(_)
TrimEnd(s) ==
    IF s # << >> /\ s[Len(s)] = " " THEN TrimEnd(SubSeq(s, 1, Len(s) - 1)) ELSE s
\* a trim that leaves the text as typed; the category laws below tell it from
\* Trim
TrimNothing(s) == s
\* String.prototype.trim
Trim(s) == TrimEnd(TrimStart(s))

\* the order of two texts under orderBy("name", "asc")
CharCode(c) == IF c = " " THEN 32 ELSE IF c = "a" THEN 97 ELSE 98
RECURSIVE TextLess(_, _)
TextLess(s, t) ==
    IF t = << >> THEN FALSE
    ELSE IF s = << >> THEN TRUE
    ELSE IF CharCode(Head(s)) # CharCode(Head(t)) THEN CharCode(Head(s)) < CharCode(Head(t))
    ELSE TextLess(Tail(s), Tail(t))

\* the text of the date input: a day, or the empty text
NoDate == [y |-> 0, m |-> 0, d |-> 0, t |-> 0]
\* toISOString().slice(0, 10): the day of the instant in UTC.  Ahead of UTC
\* the first instant of a local day is still the day before in UTC; a later
\* instant is taken at an hour where the two days agree.
toYMD(dt) ==
    IF eastOfUTC /\ dt.t = 0 THEN MakeDate(dt.y, dt.m, dt.d - 1, 0)
    ELSE MakeDate(dt.y, dt.m, dt.d, 0)
\* part_001 71-81
lastDayOfMonth(dt) == MakeDate(dt.y, dt.m + 1, 0, 0)
formDateForSelectedMonth(m) == toYMD(lastDayOfMonth(m))
\* part_001 52-55: toDateInputValue; the rows of the list all carry a date
toDateInputValue(ts) == toYMD(ToDate(ts))
\* part_001 126-129: dateValid
dateValid == form.date # NoDate
\* part_001 122-125: categoryValid (an id holds no white space)
categoryValid == form.categoryId # ""
\* part_001 130
formValid == amountValid /\ categoryValid /\ dateValid

\* Categories.tsx 47
nameValid == Len(Trim(catName)) >= 2

\* part_001 46-50 and 92-95: the form a mounted page starts with
defaultForm(m) ==
    [amount |-> Blank, categoryId |-> "", note |-> << >>, date |-> formDateForSelectedMonth(m)]

\* the state of the forms of a page that took no input, with no write issued
FormsIdle ==
    /\ form = defaultForm(now)
    /\ editingId = NoId
    /\ saving = FALSE
    /\ expCats = << >>
    /\ catItems = << >>
    /\ catName = << >>
    /\ catEditingId = "null"
    /\ catSaving = FALSE
    /\ catPageError = "null"
    /\ pending = << >>
    /\ issued = 0
    /\ srvClock = ClockStart

-----------------------------------------------------------------------------
(* Mounting a view: the useState initial values and the first run of the   *)
(* effects.                                                                *)

DashIdle ==
    /\ month = now
    /\ loading = TRUE
    /\ error = "null"
    /\ categories = << >>
    /\ monthExpenses = << >>
    /\ prevExpenses = << >>
    /\ recentExpenses = << >>
    /\ curQuery = NoQuery
    /\ prevQuery = NoQuery
    /\ recentQuery = NoQuery

DashMounted ==
    /\ month = now
    /\ loading = TRUE
    /\ error = "null"
    /\ categories = << >>
    /\ monthExpenses = << >>
    /\ prevExpenses = << >>
    /\ recentExpenses = << >>
    /\ curQuery = CurWindow(user, now)
    /\ prevQuery = PrevWindow(user, now)
    /\ recentQuery = CurWindow(user, now)

ExpIdle ==
    /\ expMonth = now
    /\ items = << >>
    /\ expLoading = TRUE
    /\ pageError = "null"
    /\ expQuery = NoQuery

ExpMounted ==
    /\ expMonth = now
    /\ items = << >>
    /\ expLoading = TRUE
    /\ pageError = "null"
    /\ expQuery = ExpWindow(user, now)

RepIdle ==
    /\ year = now.y
    /\ expenses = << >>
    /\ repCategories = << >>
    /\ repLoading = TRUE
    /\ repQuery = NoQuery

RepMounted ==
    /\ year = now.y
    /\ expenses = << >>
    /\ repCategories = << >>
    /\ repLoading = TRUE
    /\ repQuery = YearWindow(user, now.y)

Mounted ==
    /\ IF view = "dashboard" THEN DashMounted ELSE DashIdle
    /\ IF view = "expenses" THEN ExpMounted ELSE ExpIdle
    /\ IF view = "reports" THEN RepMounted ELSE RepIdle

\* App with u signed in and the protected area on screen
SignedIn(u) ==
    /\ authUser = u
    /\ authQueue = << >>
    /\ appUser = u
    /\ checkingAuth = FALSE
    /\ path = "/dashboard"
    /\ failed = {}

-----------------------------------------------------------------------------
(* The snapshot handlers.                                                  *)

\* Dashboard.tsx 107-109
OnCategoriesSnapshot ==
    /\ view = "dashboard"
    /\ user # "none"
    /\ "cats" \notin failed
    /\ categories' = CategorySnapshot(catStore, user)
    /\ UNCHANGED << writeVars, envVars, expVars, repVars, month, loading, error, monthExpenses,
                    prevExpenses, recentExpenses, curQuery, prevQuery, recentQuery >>

\* Dashboard.tsx 131-138
OnMonthSnapshot ==
    /\ view = "dashboard"
    /\ curQuery # NoQuery
    /\ "cur" \notin failed
    /\ \E snap \in MonthSnapshots(store, curQuery) : monthExpenses' = snap
    /\ loading' = FALSE
    /\ UNCHANGED << writeVars, envVars, expVars, repVars, month, error, categories,
                    prevExpenses, recentExpenses, curQuery, prevQuery, recentQuery >>

\* Dashboard.tsx 166-170
OnPrevSnapshot ==
    /\ view = "dashboard"
    /\ prevQuery # NoQuery
    /\ "prev" \notin failed
    /\ \E snap \in MonthSnapshots(store, prevQuery) : prevExpenses' = snap
    /\ UNCHANGED << writeVars, envVars, expVars, repVars, month, loading, error, categories,
                    monthExpenses, recentExpenses, curQuery, prevQuery, recentQuery >>

\* Dashboard.tsx 188-192
OnRecentSnapshot ==
    /\ view = "dashboard"
    /\ recentQuery # NoQuery
    /\ "recent" \notin failed
    /\ \E snap \in RecentSnapshots(store, recentQuery) : recentExpenses' = snap
    /\ UNCHANGED << writeVars, envVars, expVars, repVars, month, loading, error, categories,
                    monthExpenses, prevExpenses, curQuery, prevQuery, recentQuery >>

\* a row of the Expenses list: a date that is no Timestamp becomes the current instant
ExpRow(d) ==
    IF d.date \in Nat THEN d ELSE [d EXCEPT !.date = TimestampFromDate(now)]

\* Expenses: part_001 203-215
ExpOnSnapshot ==
    /\ view = "expenses"
    /\ expQuery # NoQuery
    /\ "exp" \notin failed
    /\ \E snap \in MonthSnapshots(store, expQuery) :
           items' = [i \in 1..Len(snap) |-> ExpRow(snap[i])]
    /\ expLoading' = FALSE
    /\ UNCHANGED << writeVars, envVars, dashVars, repVars, expMonth, pageError, expQuery >>

\* Reports.tsx 88-90
RepOnCategoriesSnapshot ==
    /\ view = "reports"
    /\ user # "none"
    /\ "cats" \notin failed
    /\ repCategories' = CategorySnapshot(catStore, user)
    /\ UNCHANGED << writeVars, envVars, dashVars, expVars, year, expenses, repLoading, repQuery >>

\* Reports.tsx 106-109
RepOnSnapshot ==
    /\ view = "reports"
    /\ repQuery # NoQuery
    /\ "year" \notin failed
    /\ \E snap \in YearSnapshots(store, repQuery) : expenses' = snap
    /\ repLoading' = FALSE
    /\ UNCHANGED << writeVars, envVars, dashVars, expVars, year, repCategories, repQuery >>

-----------------------------------------------------------------------------
(* The aggregation runs: a view is mounted over a store and receives the   *)
(* snapshots of its subscriptions.                                         *)

AggInit ==
    /\ eastOfUTC = FALSE
    /\ now \in AggClock
    /\ user = "u1"
    /\ SignedIn("u1")
    /\ catStore \in CatStores
    /\ \/ view \in Views /\ store \in AggStores
       \/ view = "dashboard" /\ store \in RecentStores
    /\ Mounted
    /\ FormsIdle

AggNext ==
    \/ OnCategoriesSnapshot
    \/ OnMonthSnapshot
    \/ OnPrevSnapshot
    \/ OnRecentSnapshot
    \/ ExpOnSnapshot
    \/ RepOnCategoriesSnapshot
    \/ RepOnSnapshot

SpecAgg == AggInit /\ [][AggNext]_vars

-----------------------------------------------------------------------------
(* Month navigation: Dashboard.tsx 246-268, and the Expenses header.       *)

Years == 2023 .. (2023 + YearSpan)

\* the dates of the clock
Dates ==
    { [y |-> yy, m |-> mm, d |-> dd, t |-> tt] :
        yy \in Years, mm \in 0..11, dd \in 1..31, tt \in 0..1 }
    \cap { dt \in [y : Years, m : 0..11, d : 1..31, t : 0..1] : dt.d <= DaysInMonth(dt.y, dt.m) }

\* setMonth(next) and the three effects that depend on month
DashSetMonth(next) ==
    /\ view = "dashboard"
    /\ next.y \in Years
    /\ month' = next
    /\ loading' = TRUE
    /\ error' = "null"
    /\ curQuery' = CurWindow(user, next)
    /\ prevQuery' = PrevWindow(user, next)
    /\ recentQuery' = CurWindow(user, next)
    /\ failed' = failed \ { "cur", "prev", "recent" }
    /\ UNCHANGED << writeVars, view, now, user, store, catStore, hostVars, expVars, repVars,
                    categories, monthExpenses, prevExpenses, recentExpenses >>

DashPrevMonth == DashSetMonth(addMonths(month, -1))
DashNextMonth == DashSetMonth(addMonths(month, 1))
DashThisMonth == DashSetMonth(now)

\* Expenses: setMonth(next), the expenses effect and the effect that moves the
\* form's date (part_001 172-177)
ExpSetMonth(next) ==
    /\ view = "expenses"
    /\ next.y \in Years
    /\ expMonth' = next
    /\ expLoading' = TRUE
    /\ pageError' = "null"
    /\ expQuery' = ExpWindow(user, next)
    /\ failed' = failed \ { "exp" }
    /\ form' = IF editingId # NoId THEN form
                ELSE [form EXCEPT !.date = formDateForSelectedMonth(next)]
    /\ UNCHANGED << eastOfUTC, editingId, saving, expCats, catVars, netVars >>
    /\ UNCHANGED << view, now, user, store, catStore, hostVars, dashVars, repVars, items >>

ExpPrevMonth == ExpSetMonth(expAddMonths(expMonth, -1))
ExpNextMonth == ExpSetMonth(expAddMonths(expMonth, 1))
ExpThisMonth == ExpSetMonth(now)

MonthInit ==
    /\ eastOfUTC = FALSE
    /\ now \in Dates
    /\ user = "u1"
    /\ SignedIn("u1")
    /\ catStore = << >>
    /\ store = {}
    /\ view \in { "dashboard", "expenses" }
    /\ Mounted
    /\ FormsIdle

MonthNext ==
    \/ DashPrevMonth
    \/ DashNextMonth
    \/ DashThisMonth
    \/ ExpPrevMonth
    \/ ExpNextMonth
    \/ ExpThisMonth

SpecMonth == MonthInit /\ [][MonthNext]_vars


-----------------------------------------------------------------------------
(* The session: App.tsx (auth listener and routes), AppLayout.tsx (logout), *)
(* and what the views do when the user, the month or a query changes.      *)

Users == { "u1", "u2" }
Paths == { "/", "/dashboard", "/expenses" }
\* AppLayout.tsx 7-13: the locations of the sidebar links
links == { "/dashboard", "/expenses", "/categories", "/reports", "/settings" }

\* the routes of App.tsx 38-62: the element of location p for App's user u
RouteElement(p, u) ==
    IF p = "/" THEN (IF u # "none" THEN "navigate:/dashboard" ELSE "login")
    ELSE IF p = "/dashboard" THEN (IF u # "none" THEN "app" ELSE "navigate:/")
    ELSE "navigate:/"

\* a router that follows no <Navigate>; the routing laws below tell it from
\* Resolve
ResolveStays(p, u) == p

\* where the router ends up from location p: it follows <Navigate replace>
Resolve(p, u) ==
    LET Step(q) == IF RouteElement(q, u) = "navigate:/dashboard" THEN "/dashboard"
                   ELSE IF RouteElement(q, u) = "navigate:/" THEN "/"
                   ELSE q
    IN  Step(Step(p))

\* what App renders
Screen == IF checkingAuth THEN "spinner" ELSE RouteElement(path, appUser)
SpinnerShown == Screen = "spinner"
LoginShown == Screen = "login"
ProtectedShown == Screen = "app"

\* Dashboard: the useState initial values, then the effects for user u
DashMount(u) ==
    /\ month' = now
    /\ loading' = TRUE
    /\ error' = "null"
    /\ categories' = << >>
    /\ monthExpenses' = << >>
    /\ prevExpenses' = << >>
    /\ recentExpenses' = << >>
    /\ curQuery' = IF u = "none" THEN NoQuery ELSE CurWindow(u, now)
    /\ prevQuery' = IF u = "none" THEN NoQuery ELSE PrevWindow(u, now)
    /\ recentQuery' = IF u = "none" THEN NoQuery ELSE CurWindow(u, now)

\* Dashboard: the effects on [user?.uid] and [user?.uid, month] run again for user u
DashEffects(u) ==
    /\ IF u = "none"
       THEN /\ curQuery' = NoQuery /\ prevQuery' = NoQuery /\ recentQuery' = NoQuery
            /\ UNCHANGED << loading, error >>
       ELSE /\ loading' = TRUE
            /\ error' = "null"
            /\ curQuery' = CurWindow(u, month)
            /\ prevQuery' = PrevWindow(u, month)
            /\ recentQuery' = CurWindow(u, month)
    /\ UNCHANGED << month, categories, monthExpenses, prevExpenses, recentExpenses >>

\* the state of a page that is not on screen
DashUnmount ==
    /\ month' = now
    /\ loading' = TRUE
    /\ error' = "null"
    /\ categories' = << >>
    /\ monthExpenses' = << >>
    /\ prevExpenses' = << >>
    /\ recentExpenses' = << >>
    /\ curQuery' = NoQuery /\ prevQuery' = NoQuery /\ recentQuery' = NoQuery

\* Expenses: the expenses effect for user u (part_001 179-199)
ExpEffects(u) ==
    /\ IF u = "none"
       THEN /\ items' = << >>
            /\ pageError' = "You are not logged in."
            /\ expLoading' = FALSE
            /\ expQuery' = NoQuery
       ELSE /\ expLoading' = TRUE
            /\ pageError' = "null"
            /\ expQuery' = ExpWindow(u, expMonth)
            /\ UNCHANGED items

ExpMount(u) ==
    /\ expMonth' = now
    /\ IF u = "none"
       THEN /\ items' = << >>
            /\ pageError' = "You are not logged in."
            /\ expLoading' = FALSE
            /\ expQuery' = NoQuery
       ELSE /\ items' = << >>
            /\ expLoading' = TRUE
            /\ pageError' = "null"
            /\ expQuery' = ExpWindow(u, now)

ExpUnmount ==
    /\ expMonth' = now
    /\ items' = << >>
    /\ expLoading' = TRUE
    /\ pageError' = "null"
    /\ expQuery' = NoQuery

\* Reports: the yearly effect for user u (Reports.tsx 95-105)
RepEffects(u) ==
    /\ IF u = "none"
       THEN repQuery' = NoQuery /\ UNCHANGED repLoading
       ELSE repQuery' = YearWindow(u, year) /\ repLoading' = TRUE
    /\ UNCHANGED << year, expenses, repCategories >>

RepMount(u) ==
    /\ year' = now.y
    /\ expenses' = << >>
    /\ repCategories' = << >>
    /\ repLoading' = TRUE
    /\ repQuery' = IF u = "none" THEN NoQuery ELSE YearWindow(u, now.y)

RepUnmount ==
    /\ year' = now.y
    /\ expenses' = << >>
    /\ repCategories' = << >>
    /\ repLoading' = TRUE
    /\ repQuery' = NoQuery

\* Expenses: the form state of a page put on screen (part_001 89-110)
ExpFormMount ==
    /\ form' = defaultForm(now)
    /\ editingId' = NoId
    /\ saving' = FALSE
    /\ expCats' = << >>

\* Expenses: the categories effect for user u (part_001 132-170)
ExpCatEffects(u) ==
    /\ expCats' = IF u = "none" THEN << >> ELSE expCats
    /\ UNCHANGED << form, editingId, saving >>

\* Categories: the state of a page put on screen with user u and the first run
\* of its effect (Categories.tsx 29-38, 50-58)
CatMount(u) ==
    /\ catItems' = << >>
    /\ catName' = << >>
    /\ catEditingId' = "null"
    /\ catSaving' = FALSE
    /\ catPageError' = IF u = "none" THEN "You are not logged in." ELSE "null"

\* Categories: the categories effect for user u (Categories.tsx 50-58)
CatEffects(u) ==
    /\ IF u = "none"
       THEN catItems' = << >> /\ catPageError' = "You are not logged in."
       ELSE UNCHANGED catItems /\ catPageError' = "null"
    /\ UNCHANGED << catName, catEditingId, catSaving >>

CatUnmount ==
    /\ catItems' = << >>
    /\ catName' = << >>
    /\ catEditingId' = "null"
    /\ catSaving' = FALSE
    /\ catPageError' = "null"

\* the save requests in flight when their page goes off screen: they still
\* reach the server, and their continuations set the state of no page
Orphaned(reqs) == [i \in 1..Len(reqs) |-> [reqs[i] EXCEPT !.live = FALSE]]

\* the page of the protected route is put on screen with auth.currentUser = u
MountView(u) ==
    /\ user' = u
    /\ failed' = {}
    /\ IF view = "dashboard" THEN DashMount(u) ELSE DashUnmount
    /\ IF view = "expenses" THEN ExpMount(u) ELSE ExpUnmount
    /\ IF view = "reports" THEN RepMount(u) ELSE RepUnmount
    /\ ExpFormMount
    /\ IF view = "categories" THEN CatMount(u) ELSE CatUnmount
    /\ pending' = Orphaned(pending)

\* the page's own auth listener: setUser(u), and the effects that depend on
\* user?.uid run again when the uid is another one
ViewSetUser(u) ==
    /\ user' = u
    /\ UNCHANGED pending
    /\ IF u = user
       THEN UNCHANGED << failed, dashVars, expVars, repVars, formVars, catVars >>
       ELSE /\ failed' = {}
            /\ IF view = "dashboard" THEN DashEffects(u) ELSE UNCHANGED dashVars
            /\ IF view = "expenses"
               THEN ExpEffects(u) /\ ExpCatEffects(u) /\ UNCHANGED expMonth
               ELSE UNCHANGED << expVars, formVars >>
            /\ IF view = "reports" THEN RepEffects(u) ELSE UNCHANGED repVars
            /\ IF view = "categories" THEN CatEffects(u) ELSE UNCHANGED catVars

\* a page that stays on screen without a user and only runs its effects
\* again; the session laws below tell it from UnmountView
UnmountKeepsRecords == ViewSetUser("none")

\* the protected route goes off screen: the effects' cleanups unsubscribe
UnmountView ==
    /\ user' = "none"
    /\ failed' = {}
    /\ DashUnmount /\ ExpUnmount /\ RepUnmount
    /\ ExpFormMount /\ CatUnmount
    /\ pending' = Orphaned(pending)

\* Auth page: a sign-in succeeds
SignIn(u) ==
    /\ LoginShown
    /\ authUser = "none"
    /\ Len(authQueue) < MaxQueue
    /\ authUser' = u
    /\ authQueue' = Append(authQueue, u)
    /\ UNCHANGED << writeVars, view, now, user, store, catStore, appUser, checkingAuth, path, failed,
                    dashVars, expVars, repVars >>

\* AppLayout.tsx 24-27: handleLogout
handleLogout ==
    /\ ProtectedShown
    /\ authUser # "none"
    /\ Len(authQueue) < MaxQueue
    /\ authUser' = "none"
    /\ authQueue' = Append(authQueue, "none")
    /\ UNCHANGED << writeVars, view, now, user, store, catStore, appUser, checkingAuth, path, failed,
                    dashVars, expVars, repVars >>

\* the persisted session is replaced from another tab of the browser: u2
\* signs in, or signs out, there
AuthChangedElsewhere(u) ==
    /\ u # authUser
    /\ Len(authQueue) < MaxQueue
    /\ authUser' = u
    /\ authQueue' = Append(authQueue, u)
    /\ UNCHANGED << writeVars, view, now, user, store, catStore, appUser, checkingAuth, path, failed,
                    dashVars, expVars, repVars >>

\* App.tsx 21-24 and the page's onAuthStateChanged(auth, setUser): one auth
\* state is handed to the listeners, and App renders
OnAuthStateChanged ==
    /\ authQueue # << >>
    /\ LET u == Head(authQueue)
           shownAfter == u # "none" /\ Resolve(path, u) = "/dashboard"
       IN  /\ authQueue' = Tail(authQueue)
           /\ appUser' = u
           /\ checkingAuth' = FALSE
           /\ path' = Resolve(path, u)
           /\ IF ~shownAfter THEN UnmountView
              ELSE IF ProtectedShown THEN ViewSetUser(u)
              ELSE MountView(authUser)
    /\ UNCHANGED << view, now, store, catStore, authUser, eastOfUTC, issued, srvClock >>

\* the location is set to p (a link of the sidebar, or the address bar); a
\* location other than /dashboard goes through the routes and back, which
\* puts a new page on screen
GoTo(p) ==
    /\ ~checkingAuth
    /\ path' = Resolve(p, appUser)
    /\ IF appUser = "none" THEN UNCHANGED << user, failed, dashVars, expVars, repVars, formVars, catVars, pending >>
       ELSE IF p = "/dashboard" /\ path = "/dashboard"
            THEN UNCHANGED << user, failed, dashVars, expVars, repVars, formVars, catVars, pending >>
       ELSE MountView(authUser)
    /\ UNCHANGED << view, now, store, catStore, authUser, authQueue, appUser, checkingAuth >>
    /\ UNCHANGED << eastOfUTC, issued, srvClock >>

\* a query fails: Firestore ends the listener and calls its error handler, if
\* it has one.  Dashboard.tsx 139-147 for the current-month query; the other
\* Dashboard queries and the queries of Reports have no error handler.
DashQueryFails(sub) ==
    /\ view = "dashboard"
    /\ curQuery # NoQuery
    /\ sub \notin failed
    /\ failed' = failed \cup { sub }
    /\ IF sub = "cur"
       THEN /\ error' = "Could not load expenses. Check connection or rules."
            /\ loading' = FALSE
       ELSE UNCHANGED << error, loading >>
    /\ UNCHANGED << writeVars, view, now, user, store, catStore, hostVars, expVars, repVars, month,
                    categories, monthExpenses, prevExpenses, recentExpenses,
                    curQuery, prevQuery, recentQuery >>

\* part_001 216-224
ExpQueryFails ==
    /\ view = "expenses"
    /\ expQuery # NoQuery
    /\ "exp" \notin failed
    /\ failed' = failed \cup { "exp" }
    /\ pageError' = "Failed to load expenses. Check Firestore rules and indexes."
    /\ expLoading' = FALSE
    /\ UNCHANGED << writeVars, view, now, user, store, catStore, hostVars, dashVars, repVars,
                    expMonth, items, expQuery >>

RepQueryFails(sub) ==
    /\ view = "reports"
    /\ repQuery # NoQuery
    /\ sub \notin failed
    /\ failed' = failed \cup { sub }
    /\ UNCHANGED << writeVars, view, now, user, store, catStore, hostVars, dashVars, expVars, repVars >>

\* whether a page shows an error message: {error && <div className="alert
\* alert-danger">}, {pageError && ...}; Reports has no error state to show
DashErrorShown == error # "null"
ExpErrorShown == pageError # "null"
RepErrorShown == FALSE

\* the month buttons of a session stay within MonthReach months of the clock
Near(dt) == YM(dt) - YM(now) \in (0 - MonthReach)..MonthReach

SessPrevMonth == ProtectedShown /\ user # "none" /\ Near(addMonths(month, -1)) /\ DashPrevMonth
SessNextMonth == ProtectedShown /\ user # "none" /\ Near(addMonths(month, 1)) /\ DashNextMonth
SessExpPrevMonth ==
    ProtectedShown /\ user # "none" /\ Near(expAddMonths(expMonth, -1)) /\ ExpPrevMonth
SessExpNextMonth ==
    ProtectedShown /\ user # "none" /\ Near(expAddMonths(expMonth, 1)) /\ ExpNextMonth

\* the documents of a session: two of u1 (March and February 2024), one of u2
DocOf(uid, i, a, ts) == [Doc(i, a, "c1", ts) EXCEPT !.userId = uid]
SessPool ==
    { DocOf("u1", 1, Num(100), TimestampFromDate(MakeDate(2024, 2, 10, 0))),
      DocOf("u1", 2, Num(200), TimestampFromDate(MakeDate(2024, 1, 10, 0))),
      DocOf("u2", 3, Num(200), TimestampFromDate(MakeDate(2024, 2, 12, 0))) }

\* the app is opened: App shows its spinner until the first auth state comes
SessInit ==
    /\ eastOfUTC = FALSE
    /\ now \in AggClock
    /\ view \in Views
    /\ store \in { {}, SessPool }
    /\ catStore = << Cat("c1", "Food") >>
    /\ authUser \in Users \cup { "none" }
    /\ authQueue = << authUser >>
    /\ appUser = "none"
    /\ checkingAuth = TRUE
    /\ path \in Paths
    /\ user = "none"
    /\ failed = {}
    /\ DashIdle /\ ExpIdle /\ RepIdle
    /\ FormsIdle

SessNext ==
    \/ \E u \in Users : SignIn(u)
    \/ handleLogout
    \/ \E u \in Users \cup { "none" } : AuthChangedElsewhere(u)
    \/ OnAuthStateChanged
    \/ \E p \in Paths : GoTo(p)
    \/ ProtectedShown /\ OnCategoriesSnapshot
    \/ ProtectedShown /\ OnMonthSnapshot
    \/ ProtectedShown /\ OnPrevSnapshot
    \/ ProtectedShown /\ OnRecentSnapshot
    \/ ProtectedShown /\ ExpOnSnapshot
    \/ ProtectedShown /\ RepOnCategoriesSnapshot
    \/ ProtectedShown /\ RepOnSnapshot
    \/ \E sub \in { "cur", "prev", "recent", "cats" } : DashQueryFails(sub)
    \/ ExpQueryFails
    \/ \E sub \in { "year", "cats" } : RepQueryFails(sub)
    \/ SessPrevMonth
    \/ SessNextMonth
    \/ SessExpPrevMonth
    \/ SessExpNextMonth

SpecSession == SessInit /\ [][SessNext]_vars

-----------------------------------------------------------------------------
(* The write runs: the Expenses form and list, the Categories page, and    *)
(* the two collections their requests reach.                               *)

\* the fields a request names replace the stored ones, the others stay
Merge(doc, data) ==
    [f \in DOMAIN doc \cup DOMAIN data |-> IF f \in DOMAIN data THEN data[f] ELSE doc[f]]

\* serverTimestamp() is resolved by the server when it applies the request
Resolved(data, t) ==
    [f \in DOMAIN data |-> IF f \in { "createdAt", "updatedAt" } THEN t ELSE data[f]]

HasDoc(docs, id) == \E d \in docs : d.id = id
DocById(docs, id) == CHOOSE d \in docs : d.id = id

\* the categories collection stays in name order
NameOrdered(cats) ==
    \A i \in 1..Len(cats) : \A j \in (i + 1)..Len(cats) : ~TextLess(cats[j].name, cats[i].name)
InsertAt(cats, k, c) == SubSeq(cats, 1, k) \o << c >> \o SubSeq(cats, k + 1, Len(cats))
Inserts(cats, c) ==
    { s \in { InsertAt(cats, k, c) : k \in 0..Len(cats) } : NameOrdered(s) }
Without(cats, id) == SelectSeq(cats, LAMBDA c : c.id # id)
HasCat(cats, id) == \E i \in 1..Len(cats) : cats[i].id = id
CatById(cats, id) == cats[CHOOSE i \in 1..Len(cats) : cats[i].id = id]

\* the ids addDoc gives to new documents
NewExpenseId == ClockStart + issued
NewCategoryId == << "n1", "n2", "n3", "n4" >>[issued + 1]

\* whether the server can apply a request: updateDoc needs the document
Applies(req) ==
    IF req.op # "update" THEN TRUE
    ELSE IF req.coll = "expenses" THEN HasDoc(store, req.id)
    ELSE HasCat(catStore, req.id)

\* a server that deletes, with a category, the expenses that reference it; the
\* delete laws below tell it from Apply
ApplyCascading(req) ==
    /\ srvClock' = srvClock + 1
    /\ catStore' = Without(catStore, req.id)
    /\ store' = { d \in store : d.categoryId # req.id }

\* the server applies a request to the collections
Apply(req) ==
    LET data == Resolved(req.data, srvClock)
    IN  /\ srvClock' = srvClock + 1
        /\ IF req.coll = "expenses"
           THEN /\ UNCHANGED catStore
                /\ store' =
                     IF req.op = "add" THEN store \cup { Merge([id |-> req.id], data) }
                     ELSE IF req.op = "update"
                     THEN (store \ { DocById(store, req.id) })
                              \cup { Merge(DocById(store, req.id), data) }
                     ELSE { d \in store : d.id # req.id }
           ELSE /\ UNCHANGED store
                /\ IF req.op = "add"
                   THEN catStore' \in Inserts(catStore, Merge([id |-> req.id], data))
                   ELSE IF req.op = "update"
                   THEN catStore' \in Inserts(Without(catStore, req.id),
                                              Merge(CatById(catStore, req.id), data))
                   ELSE catStore' = Without(catStore, req.id)

\* a request as the client issues it
Request(coll, op, id, data) == [coll |-> coll, op |-> op, id |-> id, data |-> data]

\* the client issues a request, the runs of a page issuing max of them
Issue(max) ==
    /\ issued < max
    /\ issued' = issued + 1

\* a request of a list button (replicate, paid toggle, delete): the server
\* applies it if it can; the dialog the handler then shows is not modelled
IssueAndApply(req, max) ==
    /\ Issue(max)
    /\ IF Applies(req) THEN Apply(req) ELSE UNCHANGED << store, catStore, srvClock >>

\* a handler that issues nothing
NoRequest == UNCHANGED << store, catStore, netVars >>

\* the frame of a handler of the Expenses page
ExpPageFrame ==
    UNCHANGED << view, now, user, hostVars, failed, eastOfUTC, dashVars, repVars, catVars >>
\* the frame of a handler of the Categories page
CatPageFrame ==
    UNCHANGED << view, now, user, hostVars, failed, eastOfUTC, dashVars, repVars, expVars,
                 formVars >>

ExpPageShown == ProtectedShown /\ view = "expenses"
CatPageShown == ProtectedShown /\ view = "categories"

\* part_001 149-161: a snapshot of the categories subscription
ExpOnCategoriesSnapshot ==
    /\ ExpPageShown
    /\ user # "none"
    /\ LET rows == CategorySnapshot(catStore, user)
       IN  /\ expCats' = rows
           /\ form' = IF form.categoryId # "" \/ rows = << >> THEN form
                      ELSE [form EXCEPT !.categoryId = rows[1].id]
    /\ UNCHANGED << editingId, saving, expVars >>
    /\ NoRequest
    /\ ExpPageFrame

\* the texts a run types into the amount input
AmountTexts == { Num(250), Num(-100) }
\* part_001 522-524: onChange of the amount input
ChangeAmount(text) ==
    /\ ExpPageShown
    /\ form' = [form EXCEPT !.amount = text]
    /\ UNCHANGED << editingId, saving, expCats, expVars >>
    /\ NoRequest
    /\ ExpPageFrame

\* onChange of the category select: one of the listed categories
ChangeCategoryId(c) ==
    /\ ExpPageShown
    /\ HasCat(expCats, c)
    /\ form' = [form EXCEPT !.categoryId = c]
    /\ UNCHANGED << editingId, saving, expCats, expVars >>
    /\ NoRequest
    /\ ExpPageFrame

\* a field of a row, or the value `??` puts in its place
FieldOr(row, f, default) == IF f \in DOMAIN row THEN row[f] ELSE default

\* part_001 242-253
startEdit(i) ==
    /\ ExpPageShown
    /\ i \in 1..Len(items)
    /\ editingId' = items[i].id
    /\ form' = [amount |-> StringOf(items[i].amount),
                categoryId |-> items[i].categoryId,
                note |-> FieldOr(items[i], "note", << >>),
                date |-> toDateInputValue(items[i].date)]
    /\ pageError' = "null"
    /\ UNCHANGED << saving, expCats, expMonth, items, expLoading, expQuery >>
    /\ NoRequest
    /\ ExpPageFrame

\* part_001 230-240: the form resetForm leaves, with the categories and the
\* month of the render it was made in
FormAfterReset(f, cats, m) ==
    [amount |-> Blank,
     categoryId |-> IF f.categoryId # "" THEN f.categoryId
                    ELSE IF cats # << >> THEN cats[1].id ELSE "",
     note |-> << >>,
     date |-> formDateForSelectedMonth(m)]

\* part_001 230-240, from the Cancel edit button
resetForm ==
    /\ ExpPageShown
    /\ editingId # NoId
    /\ form' = FormAfterReset(form, expCats, expMonth)
    /\ editingId' = NoId
    /\ pageError' = "null"
    /\ UNCHANGED << saving, expCats, expMonth, items, expLoading, expQuery >>
    /\ NoRequest
    /\ ExpPageFrame

\* a payload that stamps createdAt on every submit, edits included; the
\* timestamp laws below tell it from ExpensePayload
ExpensePayloadStamped ==
    [userId |-> user,
     amount |-> amountNum,
     categoryId |-> form.categoryId,
     note |-> Trim(form.note),
     date |-> TimestampFromDate(MakeDate(form.date.y, form.date.m, form.date.d, 0)),
     createdAt |-> "serverTimestamp",
     updatedAt |-> "serverTimestamp"]

\* part_001 289-297: the payload of a submit
ExpensePayload ==
    [userId |-> user,
     amount |-> amountNum,
     categoryId |-> form.categoryId,
     note |-> Trim(form.note),
     date |-> TimestampFromDate(MakeDate(form.date.y, form.date.m, form.date.d, 0)),
     updatedAt |-> "serverTimestamp"]

\* part_001 299-307: updateDoc when a row is being edited, addDoc otherwise
SubmitRequest ==
    IF editingId # NoId THEN Request("expenses", "update", editingId, ExpensePayload)
    ELSE Request("expenses", "add", NewExpenseId,
                 Merge(ExpensePayload, [createdAt |-> "serverTimestamp", isPaid |-> FALSE]))

\* part_001 276-316, up to the await: the request is issued and waits for
\* the server
handleSubmit ==
    /\ ExpPageShown
    /\ IF user = "none"
       THEN /\ pageError' = "You are not logged in."
            /\ UNCHANGED saving
            /\ NoRequest
       ELSE IF ~formValid \/ saving
       THEN /\ pageError' = "null"
            /\ UNCHANGED saving
            /\ NoRequest
       ELSE /\ Len(pending) < MaxInFlight
            /\ Issue(MaxWrites)
            /\ pending' = Append(pending, [who |-> "exp", live |-> TRUE, req |-> SubmitRequest,
                                           cats |-> expCats, month |-> expMonth])
            /\ saving' = TRUE
            /\ pageError' = "null"
            /\ UNCHANGED << store, catStore, srvClock >>
    /\ UNCHANGED << form, editingId, expCats, expMonth, items, expLoading, expQuery >>
    /\ ExpPageFrame

\* Categories.tsx 115-119: the payload of a submit
CategoryPayload == [userId |-> user, name |-> Trim(catName), updatedAt |-> "serverTimestamp"]

\* Categories.tsx 121-128
CatSubmitRequest ==
    IF catEditingId # "null" THEN Request("categories", "update", catEditingId, CategoryPayload)
    ELSE Request("categories", "add", NewCategoryId,
                 Merge(CategoryPayload, [createdAt |-> "serverTimestamp"]))

\* Categories.tsx 103-138, up to the await
CatHandleSubmit ==
    /\ CatPageShown
    /\ IF user = "none"
       THEN /\ catPageError' = "You are not logged in."
            /\ UNCHANGED catSaving
            /\ NoRequest
       ELSE IF ~nameValid \/ catSaving
       THEN /\ catPageError' = "null"
            /\ UNCHANGED catSaving
            /\ NoRequest
       ELSE /\ Len(pending) < MaxInFlight
            /\ Issue(MaxCatWrites)
            /\ pending' = Append(pending, [who |-> "cat", live |-> TRUE, req |-> CatSubmitRequest,
                                           cats |-> << >>, month |-> now])
            /\ catSaving' = TRUE
            /\ catPageError' = "null"
            /\ UNCHANGED << store, catStore, srvClock >>
    /\ UNCHANGED << catItems, catName, catEditingId >>
    /\ CatPageFrame

RemoveAt(s, k) == SubSeq(s, 1, k - 1) \o SubSeq(s, k + 1, Len(s))

\* a handleSubmit that clears its saving flag at the end of the try block and
\* not in a finally: a failed save leaves the flag set; the save laws below
\* tell it from SaveSettles
SaveSettlesNoFinally(k, ok) ==
    /\ k \in 1..Len(pending)
    /\ LET p == pending[k]
           accepted == ok /\ Applies(p.req)
       IN  /\ pending' = RemoveAt(pending, k)
           /\ IF accepted THEN Apply(p.req) ELSE UNCHANGED << store, catStore, srvClock >>
           /\ IF p.live /\ p.who = "exp"
              THEN /\ saving' = ~accepted
                   /\ IF accepted
                      THEN /\ form' = FormAfterReset(form, p.cats, p.month)
                           /\ editingId' = NoId
                           /\ pageError' = "null"
                      ELSE /\ pageError' = "Save failed. Please try again."
                           /\ UNCHANGED << form, editingId >>
                   /\ UNCHANGED << expCats, expMonth, items, expLoading, expQuery, catVars >>
              ELSE IF p.live /\ p.who = "cat"
              THEN /\ catSaving' = ~accepted
                   /\ IF accepted
                      THEN /\ catName' = << >>
                           /\ catEditingId' = "null"
                           /\ catPageError' = "null"
                      ELSE /\ catPageError' = "Save failed. Please try again."
                           /\ UNCHANGED << catName, catEditingId >>
                   /\ UNCHANGED << catItems, formVars, expVars >>
              ELSE UNCHANGED << formVars, expVars, catVars >>
    /\ UNCHANGED << issued, view, now, user, hostVars, failed, eastOfUTC, dashVars, repVars >>

\* the rest of a handleSubmit (part_001 309-315, Categories.tsx 130-136): the
\* server applied the request (ok) or rejected it, and the page that issued
\* it, if it is still on screen, resets its form or shows the error
SaveSettles(k, ok) ==
    /\ k \in 1..Len(pending)
    /\ LET p == pending[k]
           accepted == ok /\ Applies(p.req)
       IN  /\ pending' = RemoveAt(pending, k)
           /\ IF accepted THEN Apply(p.req) ELSE UNCHANGED << store, catStore, srvClock >>
           /\ IF p.live /\ p.who = "exp"
              THEN /\ saving' = FALSE
                   /\ IF accepted
                      THEN /\ form' = FormAfterReset(form, p.cats, p.month)
                           /\ editingId' = NoId
                           /\ pageError' = "null"
                      ELSE /\ pageError' = "Save failed. Please try again."
                           /\ UNCHANGED << form, editingId >>
                   /\ UNCHANGED << expCats, expMonth, items, expLoading, expQuery, catVars >>
              ELSE IF p.live /\ p.who = "cat"
              THEN /\ catSaving' = FALSE
                   /\ IF accepted
                      THEN /\ catName' = << >>
                           /\ catEditingId' = "null"
                           /\ catPageError' = "null"
                      ELSE /\ catPageError' = "Save failed. Please try again."
                           /\ UNCHANGED << catName, catEditingId >>
                   /\ UNCHANGED << catItems, formVars, expVars >>
              ELSE UNCHANGED << formVars, expVars, catVars >>
    /\ UNCHANGED << issued, view, now, user, hostVars, failed, eastOfUTC, dashVars, repVars >>

\* part_001 259-268
addOneMonthSafe(dt) ==
    LET month1 == dt.m + 1
        candidate == MakeDate(dt.y, month1, dt.d, 0)
    IN  IF candidate.m # month1 THEN MakeDate(dt.y, month1 + 1, 0, 0) ELSE candidate

\* part_001 382-391: the document a replication adds
ReplicaOf(exp) ==
    [userId |-> user,
     amount |-> exp.amount,
     categoryId |-> exp.categoryId,
     note |-> FieldOr(exp, "note", << >>),
     date |-> TimestampFromDate(addOneMonthSafe(ToDate(exp.date))),
     createdAt |-> "serverTimestamp",
     updatedAt |-> "serverTimestamp",
     isPaid |-> FALSE]

\* part_001 357-408; addDoc throws on a field that is undefined and sends
\* nothing
handleReplicateNextMonth(i, confirmed) ==
    /\ ExpPageShown
    /\ i \in 1..Len(items)
    /\ IF user = "none" \/ ~confirmed \/ items[i].amount = Undefined
       THEN NoRequest
       ELSE /\ IssueAndApply(Request("expenses", "add", NewExpenseId, ReplicaOf(items[i])), MaxWrites)
            /\ UNCHANGED pending
    /\ UNCHANGED << formVars, expVars >>
    /\ ExpPageFrame

\* part_001 730: x.isPaid ?? false
isPaid(x) == FieldOr(x, "isPaid", FALSE)

\* part_001 410-427, called with !isPaid (part_001 742)
handleTogglePaid(i) ==
    /\ ExpPageShown
    /\ i \in 1..Len(items)
    /\ IF user = "none"
       THEN NoRequest
       ELSE /\ IssueAndApply(Request("expenses", "update", items[i].id,
                                     [isPaid |-> ~isPaid(items[i]),
                                      updatedAt |-> "serverTimestamp"]), MaxWrites)
            /\ UNCHANGED pending
    /\ UNCHANGED << formVars, expVars >>
    /\ ExpPageFrame

\* part_001 318-355
handleDelete(i, confirmed) ==
    /\ ExpPageShown
    /\ i \in 1..Len(items)
    /\ IF ~confirmed
       THEN NoRequest
       ELSE /\ IssueAndApply(Request("expenses", "delete", items[i].id, [none |-> 0]), MaxWrites)
            /\ UNCHANGED pending
    /\ UNCHANGED << formVars, expVars >>
    /\ ExpPageFrame

\* Categories.tsx 66-79: a snapshot of the categories subscription
CatOnSnapshot ==
    /\ CatPageShown
    /\ user # "none"
    /\ catItems' = CategorySnapshot(catStore, user)
    /\ UNCHANGED << catName, catEditingId, catSaving, catPageError >>
    /\ NoRequest
    /\ CatPageFrame

\* the texts a run types into the name input
NameTexts == { << "a" >>, << " ", "a", " " >>, << "a", "b" >>, << " ", "a", "b", " " >> }

\* onChange of the name input
CatChangeName(n) ==
    /\ CatPageShown
    /\ catName' = n
    /\ UNCHANGED << catItems, catEditingId, catSaving, catPageError >>
    /\ NoRequest
    /\ CatPageFrame

\* Categories.tsx 94-100
CatStartEdit(i) ==
    /\ CatPageShown
    /\ i \in 1..Len(catItems)
    /\ catEditingId' = catItems[i].id
    /\ catName' = catItems[i].name
    /\ catPageError' = "null"
    /\ UNCHANGED << catItems, catSaving >>
    /\ NoRequest
    /\ CatPageFrame

\* Categories.tsx 87-92, from the Cancel button
CatResetForm ==
    /\ CatPageShown
    /\ catEditingId # "null"
    /\ catName' = << >>
    /\ catEditingId' = "null"
    /\ catPageError' = "null"
    /\ UNCHANGED << catItems, catSaving >>
    /\ NoRequest
    /\ CatPageFrame

\* Categories.tsx 141-173
CatHandleDelete(i, confirmed) ==
    /\ CatPageShown
    /\ i \in 1..Len(catItems)
    /\ IF ~confirmed
       THEN NoRequest
       ELSE /\ IssueAndApply(Request("categories", "delete", catItems[i].id, [none |-> 0]),
                             MaxCatWrites)
            /\ UNCHANGED pending
    /\ UNCHANGED catVars
    /\ CatPageFrame

\* the documents of a write run: a well-formed expense of u1; an older expense
\* of u1, with no isPaid, an amount this client would not have written and a
\* note with a leading blank; an expense of u2 with no amount; a category of
\* each user
WDoc(uid, i, a, c, ts) ==
    [id |-> i, userId |-> uid, amount |-> a, categoryId |-> c, date |-> ts,
     createdAt |-> i, updatedAt |-> i, note |-> << >>]
WCat(uid, id, name) == [id |-> id, userId |-> uid, name |-> name, createdAt |-> 1, updatedAt |-> 1]
WriteStore ==
    { Merge(WDoc("u1", 1, Num(100), "c1", TimestampFromDate(MakeDate(2024, 2, 10, 0))),
            [isPaid |-> FALSE]),
      Merge(WDoc("u1", 2, Num(-100), "c1", TimestampFromDate(MakeDate(2024, 2, 20, 0))),
            [note |-> << " ", "a" >>]),
      Merge(WDoc("u2", 3, Undefined, "c2", TimestampFromDate(MakeDate(2024, 2, 12, 0))),
            [isPaid |-> TRUE]) }
WriteCats == << WCat("u1", "c1", << "a", "b" >>), WCat("u2", "c2", << "b", "a" >>) >>

\* the session's user is replaced while the page is on screen, one change at
\* a time
UserReplaced(u) == authQueue = << >> /\ AuthChangedElsewhere(u)

\* u1 is signed in and the Expenses page is on screen
ExpensesInit ==
    /\ eastOfUTC \in BOOLEAN
    /\ now \in AggClock
    /\ view = "expenses"
    /\ store = WriteStore
    /\ catStore = WriteCats
    /\ user = "u1"
    /\ SignedIn("u1")
    /\ DashIdle
    /\ RepIdle
    /\ ExpMounted
    /\ FormsIdle

ExpensesNext ==
    \/ \E u \in Users : UserReplaced(u)
    \/ OnAuthStateChanged
    \/ ProtectedShown /\ ExpOnSnapshot
    \/ ExpOnCategoriesSnapshot
    \/ \E text \in AmountTexts : ChangeAmount(text)
    \/ \E c \in { "c1", "c2" } : ChangeCategoryId(c)
    \/ \E i \in 1..Len(items) : startEdit(i)
    \/ resetForm
    \/ handleSubmit
    \/ \E k \in 1..Len(pending), ok \in BOOLEAN : SaveSettles(k, ok)
    \/ \E i \in 1..Len(items), confirmed \in BOOLEAN : handleReplicateNextMonth(i, confirmed)
    \/ \E i \in 1..Len(items) : handleTogglePaid(i)
    \/ \E i \in 1..Len(items), confirmed \in BOOLEAN : handleDelete(i, confirmed)

SpecExpenses == ExpensesInit /\ [][ExpensesNext]_vars

\* u1 is signed in and the Categories page is on screen
CategoriesInit ==
    /\ eastOfUTC = FALSE
    /\ now \in AggClock
    /\ view = "categories"
    /\ store = WriteStore
    /\ catStore = WriteCats
    /\ user = "u1"
    /\ SignedIn("u1")
    /\ DashIdle
    /\ RepIdle
    /\ ExpIdle
    /\ FormsIdle

CategoriesNext ==
    \/ \E u \in Users \cup { "none" } : UserReplaced(u)
    \/ OnAuthStateChanged
    \/ CatOnSnapshot
    \/ \E n \in NameTexts : CatChangeName(n)
    \/ \E i \in 1..Len(catItems) : CatStartEdit(i)
    \/ CatResetForm
    \/ CatHandleSubmit
    \/ \E k \in 1..Len(pending), ok \in BOOLEAN : SaveSettles(k, ok)
    \/ \E i \in 1..Len(catItems), confirmed \in BOOLEAN : CatHandleDelete(i, confirmed)

SpecCategories == CategoriesInit /\ [][CategoriesNext]_vars

\* part_001 410-427 in another tab of the session, whose list is up to date:
\* the paid flag of one of the user's expenses is negated there, first among
\* the writes of the run
TogglePaidElsewhere(id) ==
    /\ srvClock < ClockStart + MaxElsewhere
    /\ user # "none"
    /\ HasDoc(store, id)
    /\ DocById(store, id).userId = user
    /\ Apply(Request("expenses", "update", id,
                     [isPaid |-> ~isPaid(DocById(store, id)),
                      updatedAt |-> "serverTimestamp"]))
    /\ UNCHANGED << pending, issued, formVars, expVars >>
    /\ ExpPageFrame

\* Categories.tsx 141-173 on the Categories page of another tab: one of the
\* user's categories is deleted there, first among the writes of the run
DeleteCategoryElsewhere(id) ==
    /\ srvClock < ClockStart + MaxElsewhere
    /\ user # "none"
    /\ HasCat(catStore, id)
    /\ CatById(catStore, id).userId = user
    /\ Apply(Request("categories", "delete", id, [none |-> 0]))
    /\ UNCHANGED << pending, issued, formVars, expVars >>
    /\ ExpPageFrame

\* u1 stays signed in on the Expenses page, which is also open in another tab
LedgerInit == ExpensesInit /\ ~eastOfUTC

LedgerNext ==
    \/ ProtectedShown /\ ExpOnSnapshot
    \/ ExpOnCategoriesSnapshot
    \/ \E text \in AmountTexts : ChangeAmount(text)
    \/ \E i \in 1..Len(items) : startEdit(i)
    \/ handleSubmit
    \/ \E k \in 1..Len(pending), ok \in BOOLEAN : SaveSettles(k, ok)
    \/ \E i \in 1..Len(items), confirmed \in BOOLEAN : handleReplicateNextMonth(i, confirmed)
    \/ \E i \in 1..Len(items) : handleTogglePaid(i)
    \/ \E i \in 1..Len(items), confirmed \in BOOLEAN : handleDelete(i, confirmed)
    \/ \E id \in { d.id : d \in store } : TogglePaidElsewhere(id)
    \/ \E id \in { "c1", "c2" } : DeleteCategoryElsewhere(id)

SpecLedger == LedgerInit /\ [][LedgerNext]_vars

\* part_004 48: the name of the category ensureUncategorized creates
Uncategorized == << "Uncategorized" >>

\* part_004 36-45: a call for user u up to its addDoc: getDocs of the
\* user's categories with limit(1) is answered from the collection, the call
\* returns when the answer is not empty and otherwise issues the addDoc of
\* 46-50, which the server applies in a later step
ensureUncategorized(u) ==
    /\ IF CategorySnapshot(catStore, u) # << >>
       THEN UNCHANGED << pending, issued >>
       ELSE /\ Issue(MaxCalls)
            /\ pending' = Append(pending,
                   [who |-> "ensure", live |-> TRUE,
                    req |-> Request("categories", "add", NewCategoryId,
                                    [userId |-> u, name |-> Uncategorized,
                                     createdAt |-> "serverTimestamp"]),
                    cats |-> << >>, month |-> now])
    /\ UNCHANGED << store, catStore, srvClock, catVars >>
    /\ CatPageFrame

\* the collections ensureUncategorized is called on: no category at all, a
\* category of u2 only, a category of each user
EnsureStores == { << >>, << WCat("u2", "c2", << "b", "a" >>) >>, WriteCats }

\* u1 is signed in on the Categories page
EnsureInit ==
    /\ eastOfUTC = FALSE
    /\ now \in AggClock
    /\ view = "categories"
    /\ store = {}
    /\ catStore \in EnsureStores
    /\ user = "u1"
    /\ SignedIn("u1")
    /\ DashIdle
    /\ RepIdle
    /\ ExpIdle
    /\ FormsIdle

EnsureNext ==
    \/ \E u \in Users : ensureUncategorized(u)
    \/ \E k \in 1..Len(pending), ok \in BOOLEAN : SaveSettles(k, ok)
    \/ CatOnSnapshot
    \/ \E i \in 1..Len(catItems), confirmed \in BOOLEAN : CatHandleDelete(i, confirmed)

SpecEnsure == EnsureInit /\ [][EnsureNext]_vars

\* the replication runs: u1 is signed in on the Expenses page on any day of
\* the years of the clock, and has one paid expense, dated that day
ReplicateInit ==
    /\ eastOfUTC = FALSE
    /\ now \in { dt \in Dates : dt.t = 1 }
    /\ view = "expenses"
    /\ store = { Merge(WDoc("u1", 1, Num(100), "c1",
                           TimestampFromDate(MakeDate(now.y, now.m, now.d, 0))),
                      [isPaid |-> TRUE, note |-> << "a" >>]) }
    /\ catStore = WriteCats
    /\ user = "u1"
    /\ SignedIn("u1")
    /\ DashIdle
    /\ RepIdle
    /\ ExpMounted
    /\ FormsIdle

ReplicateNext ==
    \/ ProtectedShown /\ ExpOnSnapshot
    \/ SessExpNextMonth
    \/ \E i \in 1..Len(items), confirmed \in BOOLEAN : handleReplicateNextMonth(i, confirmed)

SpecReplicate == ReplicateInit /\ [][ReplicateNext]_vars

-----------------------------------------------------------------------------
(* Properties of the aggregates, checked under SpecAgg.                    *)

\* the sum of the amounts of s in which an absent or non-finite amount counts as zero
RECURSIVE SafeTotal(_)
SafeTotal(s) ==
    IF s = << >> THEN Num(0)
    ELSE LET a == s[Len(s)].amount
         IN  JSAdd(SafeTotal(SubSeq(s, 1, Len(s) - 1)), IF IsNum(a) THEN a ELSE Num(0))

\* C1: each period total (the Dashboard's current and previous totals, the
\* Expenses list total, the yearly total) is the sum of the amounts of its
\* snapshot's records, an absent or non-finite amount counting as zero.
PeriodTotalsSkipInvalidAmounts ==
    /\ currentTotal = SafeTotal(monthExpenses)
    /\ prevTotal = SafeTotal(prevExpenses)
    /\ total = SafeTotal(items)
    /\ totalYear = SafeTotal(expenses)

\* the percentage rule as the specification words it
SpecPct(curr, prev) ==
    IF JSLe(prev, Num(0)) /\ JSGt(curr, Num(0)) THEN Num(100)
    ELSE IF JSLe(prev, Num(0)) /\ JSLe(curr, Num(0)) THEN Num(0)
    ELSE JSMul(Num(100), JSDiv(JSSub(curr, prev), prev))

\* C2 as stated: delta = curr - prev, and pct is 100 when prev <= 0 and
\* curr > 0, 0 when prev <= 0 and curr <= 0, and 100 * (curr - prev) / prev
\* otherwise.
PctFollowsStatedRule ==
    /\ change = JSSub(currentTotal, prevTotal)
    /\ pctChange = SpecPct(currentTotal, prevTotal)

\* C2, amended: delta = curr - prev; pct is 100 when prev = 0 and curr > 0,
\* 0 when prev = 0 and curr is not above 0, and 100 * (curr - prev) / prev for
\* every other prev, a negative prev included; finite totals never give a
\* division by zero (pct is then finite), and a total that is not finite
\* beside a non-zero prev gives a pct that is not finite.
PctFollowsCodeRule ==
    LET curr == currentTotal
        prev == prevTotal
    IN  /\ (IsNum(curr) /\ IsNum(prev)) => JSAdd(change, prev) = curr
        /\ (prev = Num(0) /\ JSGt(curr, Num(0))) => pctChange = Num(100)
        /\ (prev = Num(0) /\ ~JSGt(curr, Num(0))) => pctChange = Num(0)
        /\ (IsNum(prev) /\ prev # Num(0) /\ IsNum(curr)) =>
              /\ IsNum(pctChange)
              /\ JSMul(pctChange, prev) = JSMul(Num(100), JSSub(curr, prev))
        /\ (prev # Num(0) /\ ~(IsNum(prev) /\ IsNum(curr))) => ~IsFinite(pctChange)

\* C2 witness: a negative previous total beside a positive current total
PctWithNegativePrev ==
    /\ prevTotal = Num(-100)
    /\ currentTotal = Num(100)
    /\ pctChange = Num(-200)

\* the records of s of one category, in order
OfCategory(s, c) == SelectSeq(s, LAMBDA e : e.categoryId = c)

\* the place of the first record of category c in s
FirstAt(s, c) == CHOOSE i \in 1..Len(s) : s[i].categoryId = c /\ \A j \in 1..(i - 1) : s[j].categoryId # c

\* one entry per distinct categoryId of recs, each with the sum of its
\* category's amounts, by descending total, equal totals in the order their
\* categories are first met in recs
IsRankedBreakdown(cd, recs) ==
    /\ Len(cd) = Cardinality({ recs[i].categoryId : i \in 1..Len(recs) })
    /\ { cd[i].id : i \in 1..Len(cd) } = { recs[i].categoryId : i \in 1..Len(recs) }
    /\ \A i \in 1..Len(cd) : cd[i].value = SafeTotal(OfCategory(recs, cd[i].id))
    /\ \A i, j \in 1..Len(cd) : i < j =>
          /\ JSLe(cd[j].value, cd[i].value)
          /\ cd[i].value = cd[j].value => FirstAt(recs, cd[i].id) < FirstAt(recs, cd[j].id)

\* C3: the category breakdown (the Dashboard's and the yearly report's) has
\* one entry per distinct categoryId whose total is the sum of that
\* category's amounts, by descending total, ties in first-encountered order.
BreakdownIsRanked ==
    /\ \A cd \in categoryData : IsRankedBreakdown(cd, monthExpenses)
    /\ \A cd \in repCategoryData : IsRankedBreakdown(cd, expenses)

\* C4 as stated: for a non-empty record set every entry's percentage is a
\* number, the largest entry is at exactly 100% and the others at most 100%.
BarsRelativeToLargest ==
    \A cd \in categoryData :
        LET w == BarWidths(cd)
        IN  cd # << >> =>
              /\ w[1] = Num(100)
              /\ \A i \in 1..Len(w) : IsNum(w[i]) /\ JSLe(w[i], Num(100))

RECURSIVE SumSeq(_)
SumSeq(w) == IF w = << >> THEN Num(0) ELSE JSAdd(SumSeq(SubSeq(w, 1, Len(w) - 1)), w[Len(w)])

\* C4, amended: each of the (at most 6) entries shown carries the percentage
\* 100 * entryTotal / periodTotal, its share of the period total, not of the
\* largest entry.  With a finite non-zero period total the percentage of a
\* finite entry is that quotient; when every amount of the period is finite
\* and not negative and the period total is above zero, every percentage is
\* at most 100 and the percentages add up to 100; with a period total of zero
\* or NaN beside a non-empty breakdown the percentage is not a finite number.
BarsAreSharesOfTotal ==
    \A cd \in categoryData :
        LET w == BarWidths(cd)
        IN  /\ Len(w) = Min(Len(cd), BarLimit)
            /\ \A i \in 1..Len(w) :
                  /\ (IsNum(currentTotal) /\ currentTotal # Num(0) /\ IsNum(cd[i].value)) =>
                        /\ IsNum(w[i])
                        /\ JSMul(w[i], currentTotal) = JSMul(Num(100), cd[i].value)
                  /\ (currentTotal = Num(0) \/ IsNaN(currentTotal)) => ~IsFinite(w[i])
            /\ ( /\ \A k \in 1..Len(monthExpenses) :
                       IsNum(monthExpenses[k].amount) /\ monthExpenses[k].amount[2] >= 0
                 /\ JSGt(currentTotal, Num(0)) ) =>
                  /\ \A i \in 1..Len(w) : JSLe(w[i], Num(100))
                  /\ Len(w) = Len(cd) => SumSeq(w) = Num(100)

\* C4 witness: two categories, 200 and 100: the larger bar is at 200/3 percent
LargestBarBelowHundred ==
    /\ currentTotal = Num(300)
    /\ \E cd \in categoryData : Len(cd) = 2 /\ BarWidths(cd)[1] = Rat(200, 3)

\* the categoryIds of recs that no category of cats carries
Dangling(recs, cats) ==
    { recs[i].categoryId : i \in 1..Len(recs) } \ { cats[i].id : i \in 1..Len(cats) }

\* C5: a record whose categoryId matches no category is kept in the breakdown
\* under an entry labelled "Unknown", in the Dashboard and in the yearly
\* report alike.
DanglingCategoryIsUnknown ==
    /\ \A cd \in categoryData : \A c \in Dangling(monthExpenses, categories) :
          \E i \in 1..Len(cd) : cd[i].id = c /\ cd[i].name = "Unknown"
    /\ \A cd \in repCategoryData : \A c \in Dangling(expenses, repCategories) :
          \E i \in 1..Len(cd) : cd[i].id = c /\ cd[i].name = "Unknown"


\* the places of s, and whether s lists each of its documents once
Places(s) == 1..Len(s)
NoRepeats(s) == \A i, j \in Places(s) : s[i].id = s[j].id => i = j

\* C6 as stated: the recent list of a period of K records has min(K, 8)
\* entries, by date descending with ties by createdAt descending, and they
\* are the first entries of the period's records in that order.
RecentByDateThenCreatedAt ==
    recentExpenses # << >> =>
        LET M == Matching(store, recentQuery)
            r == recentExpenses
            Before(a, b) == a.date > b.date \/ (a.date = b.date /\ a.createdAt >= b.createdAt)
        IN  /\ Len(r) = Min(Cardinality(M), 8)
            /\ NoRepeats(r)
            /\ \A i \in Places(r) : r[i] \in M
            /\ \A i, j \in Places(r) : i < j => Before(r[i], r[j])
            /\ \A d \in M : (\A i \in Places(r) : r[i] # d) => \A i \in Places(r) : Before(r[i], d)

\* the recent list is a first part of the period's records by date descending
RecentIsTopByDate ==
    recentExpenses # << >> =>
        LET M == Matching(store, recentQuery)
            r == recentExpenses
        IN  /\ Len(r) = Min(Cardinality(M), 8)
            /\ NoRepeats(r)
            /\ \A i \in Places(r) : r[i] \in M
            /\ \A i, j \in Places(r) : i < j => r[i].date >= r[j].date
            /\ \A d \in M : (\A i \in Places(r) : r[i] # d) => \A i \in Places(r) : r[i].date >= d.date

\* C6, amended: the recent list of a period of K records has min(K, 8)
\* entries, and they are the first entries of the period's records by date
\* descending; records of equal date come in the store's order, which
\* createdAt does not decide (the query orders by date alone); a recent
\* snapshot leaves the period's full record list as it is.
RecentListByDateOnly ==
    /\ []RecentIsTopByDate
    /\ [][recentExpenses' # recentExpenses => monthExpenses' = monthExpenses]_vars

\* C6 witness: a period of 10 records, of which the recent list holds 8
RecentCutToEight ==
    /\ Cardinality(Matching(store, recentQuery)) = 10
    /\ Len(recentExpenses) = 8

\* C10: with an empty record set for the period the total is 0, the ranked
\* breakdown and the recent list are empty, no bar width is computed, and pct
\* is a number: 0 when the previous total is 0 too.
EmptyPeriodAggregates ==
    (view = "dashboard" /\ ~loading /\ monthExpenses = << >>) =>
        /\ currentTotal = Num(0)
        /\ categoryData = { << >> }
        /\ \A cd \in categoryData : BarWidths(cd) = << >>
        /\ recentExpenses = << >>
        /\ IsFinite(pctChange)
        /\ prevTotal = Num(0) => pctChange = Num(0)

-----------------------------------------------------------------------------
(* Properties of the month arithmetic, checked under SpecMonth.            *)

\* the first and the last day of every month around the years of the model,
\* at the first instant of the day and later in the day
BoundaryInstants ==
    { TimestampFromDate(dt) :
        dt \in { x \in [y : 2022 .. (2024 + YearSpan), m : 0..11, d : 1..31, t : 0..1] :
                   x.d = 1 \/ x.d = DaysInMonth(x.y, x.m) } }

\* q is the window of the month of the reference date ref
IsMonthWindowOf(q, ref) ==
    /\ q.start = TimestampFromDate([y |-> ref.y, m |-> ref.m, d |-> 1, t |-> 0])
    /\ q.start <= TimestampFromDate(ref)
    /\ TimestampFromDate(ref) < q.end
    /\ q.end = TimestampFromDate(addMonths(ToDate(q.start), 1))
    /\ q.end = TimestampFromDate(expAddMonths(ToDate(q.start), 1))
    /\ \A r \in BoundaryInstants : InWindow(r, q) <=> YM(ToDate(r)) = YM(ref)

\* C7: for every reference date D the month window starts at the first
\* instant of D's month, holds D, ends at the month shift of its start by +1,
\* and holds a record date exactly when the date is of D's month, so that
\* every date lies in exactly one month window.
MonthWindowsPartitionDates ==
    /\ view = "dashboard" => IsMonthWindowOf(curQuery, month) /\ recentQuery = curQuery
    /\ view = "expenses" => IsMonthWindowOf(expQuery, expMonth)

\* C7 witness: the window of a February of 29 days, reached by navigation
LeapFebruaryWindow ==
    /\ view = "dashboard"
    /\ month # now
    /\ month.y = 2024 /\ month.m = 1 /\ month.d = 29
    /\ curQuery.end = TimestampFromDate([y |-> 2024, m |-> 2, d |-> 1, t |-> 0])

\* C8: in the Dashboard a previous or next action moves the selected (year,
\* month) by exactly one month, and the previous-month query window is the
\* calendar month immediately before the current-month query window.
DashboardMovesByOneMonth ==
    view = "dashboard" =>
        /\ YM(addMonths(month, 1)) = YM(month) + 1
        /\ YM(addMonths(month, -1)) = YM(month) - 1
        /\ YM(ToDate(prevQuery.start)) = YM(ToDate(curQuery.start)) - 1
        /\ prevQuery.end = curQuery.start

\* C9: shifting the month by +1 and then -1, and by -1 and then +1, returns
\* to the original (year, month), for the Dashboard's month shift and for the
\* Expenses view's.
MonthShiftRoundTrips ==
    /\ YM(addMonths(addMonths(month, 1), -1)) = YM(month)
    /\ YM(addMonths(addMonths(month, -1), 1)) = YM(month)
    /\ YM(expAddMonths(expAddMonths(expMonth, 1), -1)) = YM(expMonth)
    /\ YM(expAddMonths(expAddMonths(expMonth, -1), 1)) = YM(expMonth)


-----------------------------------------------------------------------------
(* Malformed records: checked under SpecAgg.                               *)

\* the records of s dated in month k (1..12)
OfMonth(s, k) == SelectSeq(s, LAMBDA e : ToDate(e.date).m + 1 = k)

\* C11: a record set with a malformed record is folded without loss: every
\* record of the snapshot is listed, the malformed amount counts as zero in
\* the monthly totals of the yearly report and in the Expenses total, and a
\* dangling categoryId is labelled "Unknown" in the yearly breakdown.
MalformedRecordsDegradeSafely ==
    /\ \A k \in 1..12 : monthlyData[k] = SafeTotal(OfMonth(expenses, k))
    /\ view = "expenses" /\ ~expLoading =>
          /\ Len(items) = Cardinality(Matching(store, expQuery))
          /\ IsFinite(total)
    /\ \A cd \in repCategoryData : \A i \in 1..Len(cd) :
          ~MapHas(repCategories, cd[i].id) => cd[i].name = "Unknown"


-----------------------------------------------------------------------------
(* Properties of the session, checked under SpecSession.                   *)

\* no query is subscribed and no record or category is held
NothingLoaded ==
    /\ curQuery = NoQuery /\ prevQuery = NoQuery /\ recentQuery = NoQuery
    /\ expQuery = NoQuery /\ repQuery = NoQuery
    /\ monthExpenses = << >> /\ prevExpenses = << >> /\ recentExpenses = << >>
    /\ items = << >> /\ expenses = << >>
    /\ categories = << >> /\ repCategories = << >>

\* C12: whenever the user handed to the app is absent (App's user, or the
\* page's own), no record or category query is subscribed and every record
\* set is empty; the step that takes the user away leaves nothing loaded.
NoUserNothingLoaded ==
    /\ [](((~checkingAuth /\ appUser = "none") \/ user = "none") => NothingLoaded)
    /\ [][(appUser # "none" /\ appUser' = "none") => NothingLoaded']_vars

\* C12 witness: the Expenses page on screen with the user gone from the
\* session: it reports that nobody is logged in and holds no record
PageWithoutUser ==
    /\ ProtectedShown
    /\ view = "expenses"
    /\ authUser = "none"
    /\ user = "none"
    /\ store # {}
    /\ pageError = "You are not logged in."


\* recs is empty, or a snapshot of query q over the store
HeldFrom(recs, q, snaps) == recs = << >> \/ (q # NoQuery /\ recs \in snaps)

\* C13: each record set of a page is the snapshot its currently active
\* subscription delivered last (empty before the first one); after the
\* month or the user changes, nothing of an earlier subscription is held.
RecordSetsAreOfActiveQuery ==
    /\ HeldFrom(monthExpenses, curQuery, MonthSnapshots(store, curQuery))
    /\ HeldFrom(prevExpenses, prevQuery, MonthSnapshots(store, prevQuery))
    /\ HeldFrom(recentExpenses, recentQuery, RecentSnapshots(store, recentQuery))
    /\ HeldFrom(items, expQuery, MonthSnapshots(store, expQuery))
    /\ HeldFrom(expenses, repQuery, YearSnapshots(store, repQuery))


\* C14: when a query of the page on screen has failed, the page shows an
\* error message, so that a failed load is told from a period without
\* spending.
QueryFailureIsShown ==
    /\ (view = "dashboard" /\ failed # {}) => DashErrorShown
    /\ (view = "expenses" /\ failed # {}) => ExpErrorShown
    /\ (view = "reports" /\ failed # {}) => RepErrorShown


\* every record of recs belongs to user u
OwnedBy(recs, u) == \A i \in 1..Len(recs) : recs[i].userId = u

\* the queries that are subscribed
ActiveQueries == { curQuery, prevQuery, recentQuery, expQuery, repQuery } \ { NoQuery }

\* C15: every subscribed query is filtered by the page's current user, and
\* the records a page displays (the Dashboard and Reports beside their
\* loading spinner, the Expenses header's total always) are the current
\* user's own.
OnlyOwnDataShown ==
    /\ \A q \in ActiveQueries : q.uid = user
    /\ (view = "dashboard" /\ ProtectedShown /\ user # "none" /\ ~loading) =>
          /\ OwnedBy(monthExpenses, user)
          /\ OwnedBy(prevExpenses, user)
          /\ OwnedBy(recentExpenses, user)
    /\ (view = "expenses" /\ ProtectedShown) => OwnedBy(items, user)
    /\ (view = "reports" /\ ProtectedShown /\ user # "none" /\ ~repLoading) =>
          OwnedBy(expenses, user)


\* what is on screen follows App's user
ScreenFollowsUser ==
    /\ checkingAuth => Screen = "spinner"
    /\ ~checkingAuth => Screen \in { "login", "app" }
    /\ Screen = "app" => appUser # "none" /\ path = "/dashboard"
    /\ (~checkingAuth /\ appUser = "none") => Screen = "login" /\ path = "/"
    /\ (~checkingAuth /\ appUser # "none") => Screen = "app"
    /\ (~checkingAuth /\ authQueue = << >>) => appUser = authUser
    /\ Screen # "app" => user = "none" /\ NothingLoaded

\* C16: while the auth state is being checked App shows its spinner, neither
\* the login page nor the app; afterwards the app area is on screen exactly
\* when App has a user, whatever location was asked for: without a user the
\* location is / and the login page is shown, with a user it is /dashboard;
\* a logout clears the session, and once that is handed to App the login
\* page is shown.
ProtectedAreaNeedsUser ==
    /\ []ScreenFollowsUser
    /\ [][(authUser # "none" /\ authUser' = "none") => authQueue' = Append(authQueue, "none")]_vars
    /\ [][(authQueue # << >> /\ authQueue' = Tail(authQueue) /\ Head(authQueue) = "none")
             => (Screen' = "login" /\ path' = "/")]_vars

\* C16 witness: a logout was issued from the app area and is about to be
\* handed to App
LogoutUnderWay ==
    /\ Screen = "app"
    /\ authUser = "none"
    /\ authQueue = << "none" >>
    /\ monthExpenses # << >>

-----------------------------------------------------------------------------
(* The write path.                                                         *)

\* the amount of d is one a write put there: d is new, or its amount changed
AmountWritten(d) == ~HasDoc(store, d.id) \/ DocById(store, d.id).amount # d.amount

\* C17: every write of an expense (create, edit, replicate to next month)
\* carries an amount that is finite and above zero, so every document a step
\* adds and every amount a step changes is such an amount; and a submit of a
\* form with an invalid amount issues no request and leaves the collection
\* as it is.
ExpenseWritesCarryValidAmount ==
    [][ /\ \A d \in store' : AmountWritten(d) => amountValidOf(d.amount)
        /\ (handleSubmit /\ ~amountValid) => (issued' = issued /\ store' = store) ]_vars

\* the name of c is one a write put there: c is new, or its name changed
NameWritten(c) == ~HasCat(catStore, c.id) \/ CatById(catStore, c.id).name # c.name

\* a text with no blank at either end
NoOuterBlank(t) == t = << >> \/ (Head(t) # " " /\ t[Len(t)] # " ")

\* the categories of cats are all among those of after
AllRemain(cats, after) ==
    \A i \in 1..Len(cats) : \E j \in 1..Len(after) : after[j] = cats[i]

\* C18: every category the client writes (create or edit) has a name of at
\* least 2 characters with no blank at either end; a submit of a name that is
\* shorter after trimming issues no request and leaves the collection as it
\* is; and a step that adds a category keeps every category there was, one of
\* the same name included.
CategoryNamesWrittenTrimmed ==
    [][ /\ \A i \in 1..Len(catStore') :
              NameWritten(catStore'[i]) =>
                  Len(catStore'[i].name) >= 2 /\ NoOuterBlank(catStore'[i].name)
        /\ (CatHandleSubmit /\ ~nameValid) => (issued' = issued /\ catStore' = catStore)
        /\ Len(catStore') > Len(catStore) => AllRemain(catStore, catStore') ]_vars

\* a category was created under the name of one the user had, and both are
\* stored
DuplicateNameStored ==
    \E i, j \in 1..Len(catStore) :
        /\ i < j
        /\ catStore[i].userId = catStore[j].userId
        /\ catStore[i].name = catStore[j].name

\* no step changes the userId of an expense or of a category that stays
OwnersKept ==
    /\ \A d \in store : \A e \in store' : e.id = d.id => e.userId = d.userId
    /\ \A i \in 1..Len(catStore) : \A j \in 1..Len(catStore') :
           catStore'[j].id = catStore[i].id => catStore'[j].userId = catStore[i].userId

\* every expense and every category a step creates has the id of a user as
\* its userId (the user the page held when the request was issued)
OwnersSetAtCreation ==
    /\ \A e \in store' : ~HasDoc(store, e.id) => e.userId \in Users
    /\ \A j \in 1..Len(catStore') :
           ~HasCat(catStore, catStore'[j].id) => catStore'[j].userId \in Users

\* C19: the userId of an expense or of a category is set at creation to the
\* id of the authenticated user and no later write (edit, paid toggle)
\* changes it, whatever the order of auth changes, start-edits and submits.
OwnerIsImmutable == [][OwnersSetAtCreation /\ OwnersKept]_vars

\* part_001 660 and 755-756: categoryNameById.get(x.categoryId) ?? "Unknown",
\* the label of a row of the Expenses list
UnknownLabel == << "Unknown" >>
ExpLabel(cats, id) == IF HasCat(cats, id) THEN CatById(cats, id).name ELSE UnknownLabel

\* C20: a confirmed delete of a category removes that category document and
\* nothing else: the expenses collection is as it was (no expense deleted, no
\* categoryId changed), and with the categories snapshot that follows, the
\* Expenses list of the owner labels every expense that references the
\* deleted category "Unknown"; a delete that is not confirmed changes nothing.
CategoryDeleteIsLocal ==
    [][ \A i \in 1..Len(catItems) :
          /\ CatHandleDelete(i, FALSE) => UNCHANGED vars
          /\ CatHandleDelete(i, TRUE) =>
                /\ store' = store
                /\ catStore' = Without(catStore, catItems[i].id)
                /\ \A d \in store' :
                       d.categoryId = catItems[i].id =>
                           ExpLabel(CategorySnapshot(catStore', d.userId), d.categoryId)
                               = UnknownLabel ]_vars

\* category c1 was deleted and the two expenses that reference it are stored
DanglingAfterDelete ==
    /\ ~HasCat(catStore, "c1")
    /\ Cardinality({ d \in store : d.categoryId = "c1" }) = 2

-----------------------------------------------------------------------------
(* The ledger: timestamps and the paid flag over the writes of a run.      *)

\* a step keeps the createdAt of every expense that stays, never lowers its
\* updatedAt, and sets the updatedAt of each one it changes to the server's
\* time of the write
StampsKept ==
    \A d \in store : \A e \in store' :
        e.id = d.id =>
            /\ e.createdAt = d.createdAt
            /\ e.updatedAt >= d.updatedAt
            /\ e # d => (e.updatedAt = srvClock /\ e.updatedAt > d.updatedAt)

\* a step gives an expense it creates the server's time of the write as both
\* timestamps
StampsSetAtCreation ==
    \A e \in store' :
        ~HasDoc(store, e.id) => (e.createdAt = srvClock /\ e.updatedAt = srvClock)

\* C21: every write that changes an existing expense (edit, paid toggle)
\* sets updatedAt to the server's time and leaves createdAt as it is;
\* createdAt is set once, at creation; so over any sequence of writes no
\* updatedAt decreases and createdAt <= updatedAt holds of every expense.
TimestampsAreMonotonic ==
    [][ /\ StampsKept
        /\ StampsSetAtCreation
        /\ \A e \in store' : e.createdAt <= e.updatedAt ]_vars

\* C21 witness: an expense that was stored before the run has been changed
\* by the second write of the run
TwiceWrittenLedger ==
    \E d \in store : d.createdAt < ClockStart /\ d.updatedAt = ClockStart + 1

\* the paid flag of the stored expense id, an absent field counting as false
PaidOf(docs, id) == isPaid(DocById(docs, id))

\* C22: an expense with no paid field counts as unpaid; every expense the
\* client creates or replicates is written with paid = false; a paid toggle
\* that reaches a stored expense writes the negation of its stored value (so
\* that two toggles give back the original); and an edit that is applied
\* leaves the paid flag as it was.
PaidFlagFollowsStoredValue ==
    [][ /\ \A e \in store' : ~HasDoc(store, e.id) => ("isPaid" \in DOMAIN e /\ ~e.isPaid)
        /\ \A i \in 1..Len(items) :
               (handleTogglePaid(i) /\ issued' # issued /\ HasDoc(store, items[i].id)) =>
                   PaidOf(store', items[i].id) = ~PaidOf(store, items[i].id)
        /\ \A k \in 1..Len(pending) :
               (SaveSettles(k, TRUE) /\ pending[k].req.op = "update"
                    /\ HasDoc(store, pending[k].req.id)) =>
                   PaidOf(store', pending[k].req.id) = PaidOf(store, pending[k].req.id) ]_vars

-----------------------------------------------------------------------------
(* The yearly report.                                                      *)

\* the values of a breakdown
ValuesOf(cd) == [i \in 1..Len(cd) |-> cd[i].value]

\* C23: the yearly report is over [1 January of the year, 1 January of the
\* next year); every record of that window is in exactly one of the 12
\* monthly buckets, each bucket being the sum of the amounts of its month;
\* and the 12 bucket totals, like the category totals of the breakdown, add
\* up to the yearly total.
YearlyReportAddsUp ==
    (view = "reports" /\ ~repLoading) =>
        /\ repQuery = YearWindow(user, year)
        /\ \A i \in 1..Len(expenses) :
               /\ TimestampFromDate(yearStart(year)) <= expenses[i].date
               /\ expenses[i].date < TimestampFromDate(nextYearStart(year))
               /\ Cardinality({ k \in 1..12 : ToDate(expenses[i].date).m + 1 = k }) = 1
        /\ \A k \in 1..12 : monthlyData[k] = SumAmounts(OfMonth(expenses, k))
        /\ SumSeq(monthlyData) = totalYear
        /\ \A cd \in repCategoryData : SumSeq(ValuesOf(cd)) = totalYear

-----------------------------------------------------------------------------
(* Routing.                                                                *)

\* C25: while a user is logged in, going to /expenses shows the Expenses
\* list, and each sidebar link of the layout (Dashboard, Expenses,
\* Categories, Reports, Settings) ends on its own location, its page shown
\* inside the layout.
SidebarLinksReachTheirPages ==
    [][ \A p \in links :
          (GoTo(p) /\ appUser # "none") => (path' = p /\ Screen' = "app") ]_vars

-----------------------------------------------------------------------------
(* The Dashboard's report over month changes.                              *)

\* every record of recs is matched by query q
AllMatch(recs, q) ==
    \A i \in 1..Len(recs) : recs[i].userId = q.uid /\ InWindow(recs[i].date, q)

\* C26: whenever the Dashboard shows its report (loading is false and no
\* error is set), its three subscriptions are those of the selected month and
\* user, the records behind the current total and the recent list are of the
\* selected month, and the records behind the previous total are of the month
\* before it, so that delta and pct compare the selected month with its
\* predecessor only.
DashboardReportIsOfSelectedMonth ==
    (view = "dashboard" /\ ProtectedShown /\ user # "none" /\ ~loading /\ error = "null") =>
        /\ curQuery = CurWindow(user, month)
        /\ prevQuery = PrevWindow(user, month)
        /\ recentQuery = CurWindow(user, month)
        /\ AllMatch(monthExpenses, CurWindow(user, month))
        /\ AllMatch(recentExpenses, CurWindow(user, month))
        /\ AllMatch(prevExpenses, PrevWindow(user, month))

-----------------------------------------------------------------------------
(* The category of a submitted expense.                                    *)

\* C27: every expense created or edited through the form carries the id of
\* a category of the latest categories snapshot of the page's user: whenever
\* a submit issues its request and the page holds the user's categories as
\* they now are, the form's categoryId is among them, whatever category
\* snapshots (the deletion of the selected category included), form resets
\* and submits came before.
SubmittedCategoryIsListed ==
    [][ (handleSubmit /\ issued' # issued /\ expCats = CategorySnapshot(catStore, user)) =>
            HasCat(expCats, form.categoryId) ]_vars

-----------------------------------------------------------------------------
(* Replication to the next month.                                          *)

\* e is the copy of row x in the month after x's: the owner, amount, category
\* and note of x, unpaid, on x's day of the month or on the month's last day
\* when it has no such day
IsCopyToNextMonth(e, x) ==
    LET o == ToDate(x.date)
        n == ToDate(e.date)
    IN  /\ e.userId = x.userId
        /\ e.amount = x.amount
        /\ e.categoryId = x.categoryId
        /\ e.note = FieldOr(x, "note", << >>)
        /\ "isPaid" \in DOMAIN e /\ ~e.isPaid
        /\ YM(n) = YM(o) + 1
        /\ n.d = Min(o.d, DaysInMonth(n.y, n.m))

\* C28: a replication that is confirmed adds exactly one expense and leaves
\* the others, the original included, as they are; the new expense has the
\* original's owner, amount, category and note, is unpaid, and is dated in
\* the next calendar month, on the same day of the month when that month has
\* it and on its last day otherwise, for every original date, those of
\* December included.
ReplicateCopiesToNextMonth ==
    [][ \A i \in 1..Len(items) :
          (handleReplicateNextMonth(i, TRUE) /\ issued' # issued) =>
              \E e \in store' :
                  /\ e \notin store
                  /\ store' = store \cup { e }
                  /\ IsCopyToNextMonth(e, items[i]) ]_vars

-----------------------------------------------------------------------------
(* The default category.                                                   *)

\* the categories of user u named "Uncategorized"
UncategorizedOf(cats, u) ==
    { i \in 1..Len(cats) : cats[i].userId = u /\ cats[i].name = Uncategorized }

\* C29: whatever calls of ensureUncategorized were made for a user,
\* one after the other or at once, the user has at most one category named
\* "Uncategorized", and has exactly one once a call that found no category
\* has had its addDoc applied; a call for a user who has a category creates
\* nothing.
EnsureCreatesOneUncategorized ==
    [][ \A u \in Users :
          /\ Cardinality(UncategorizedOf(catStore', u)) <= 1
          /\ \A k \in 1..Len(pending) :
                 (SaveSettles(k, TRUE) /\ pending[k].who = "ensure"
                      /\ pending[k].req.data.userId = u) =>
                     Cardinality(UncategorizedOf(catStore', u)) = 1
          /\ (ensureUncategorized(u) /\ CategorySnapshot(catStore, u) # << >>) =>
                 UNCHANGED << catStore, pending, issued >> ]_vars

-----------------------------------------------------------------------------
(* The save requests of the forms.                                         *)

\* the save requests of form who that are in flight
InFlight(reqs, who) == { k \in 1..Len(reqs) : reqs[k].who = who /\ reqs[k].live }

\* the server applies the request of pending[k] when it is asked to
Accepted(k, ok) == ok /\ Applies(pending[k].req)

=============================================================================
